---------------------------- MODULE Spec2Model ----------------------------
(***************************************************************************)
(* A model of md2word: the style sheet of MarkdownToWordConverter          *)
(* (src/converter.py), its persistence (load_styles / save_styles), the    *)
(* style editor of the GUI (src/main.py) and the block emitter             *)
(* (markdown_to_docx and the _process_* methods).                          *)
(*                                                                         *)
(* Units.  font_size, space_before_pt, space_after_pt: points.             *)
(* line_spacing, first_line_indent_cm, font_size_ratio: hundredths.        *)
(* Run sizes: hundredths of a point.  Indents: thousandths of a cm.        *)
(***************************************************************************)
EXTENDS Integers, Sequences, FiniteSets, TLC

VARIABLES
    styles_config,   \* MarkdownToWordConverter.styles_config
    style_file,      \* the content of styles_config.json on disk
    saved_sheet,     \* history: styles_config at the last save_styles that wrote the file
    loaded_file,     \* history: the content of the style file at the last load_styles
    objects,         \* the dict objects of the style entries and who refers to them
    md_soup,         \* the tag tree of the source document (top-level nodes)
    disk,            \* the file system: existing path -> "image", "corrupt" or "dir"
    docx,            \* the outcome of the last markdown_to_docx
    current_styles,  \* MarkdownToWordGUI.current_styles
    style_widgets,   \* MarkdownToWordGUI.style_widgets: style name -> StyleConfigWidget
    ops,             \* the number of operations the user has performed in the GUI
    pc               \* the last operation of the client driving the converter

vars == <<styles_config, style_file, saved_sheet, loaded_file, objects, md_soup, disk, docx,
          current_styles, style_widgets, ops, pc>>

\* the variables of the GUI
gui == <<current_styles, style_widgets, ops>>

-----------------------------------------------------------------------------
(* Python values held in a style entry.  One record shape for every value,  *)
(* so that a tuple and a list with the same items are different values.     *)

Num(n)   == [k |-> "num",   n |-> n, s |-> "", c |-> <<>>]
Str(s)   == [k |-> "str",   n |-> 0, s |-> s,  c |-> <<>>]
Bool(b)  == [k |-> "bool",  n |-> IF b THEN 1 ELSE 0, s |-> "", c |-> <<>>]
Tuple(c) == [k |-> "tuple", n |-> 0, s |-> "", c |-> c]
List(c)  == [k |-> "list",  n |-> 0, s |-> "", c |-> c]

\* dict.update(other): the fields of other replace or extend those of d
Update(d, other) ==
    [f \in (DOMAIN d) \cup (DOMAIN other) |-> IF f \in DOMAIN other THEN other[f] ELSE d[f]]

\* d with field f set to v (d[f] = v)
SetItem(d, f, v) == [g \in (DOMAIN d) \cup {f} |-> IF g = f THEN v ELSE d[g]]

\* d without its field f
DelItem(d, f) == [g \in (DOMAIN d) \ {f} |-> d[g]]

\* d.get(f, dflt)
Get(d, f, dflt) == IF f \in DOMAIN d THEN d[f] ELSE dflt

EmptyDict == [f \in {} |-> Num(0)]

-----------------------------------------------------------------------------
(* DEFAULT_STYLES_CONFIG *)

HeadingDefault(font, size, grey, before, after) ==
    [font_name |-> Str(font), font_size |-> Num(size), bold |-> Bool(TRUE),
     italic |-> Bool(FALSE), color_rgb |-> Tuple(<<grey, grey, grey>>),
     space_before_pt |-> Num(before), space_after_pt |-> Num(after),
     alignment |-> Str("LEFT")]

DEFAULT_STYLES_CONFIG ==
    [H1 |-> HeadingDefault("SimHei", 24, 0, 12, 6),
     H2 |-> HeadingDefault("SimHei", 20, 0, 10, 5),
     H3 |-> HeadingDefault("SimHei", 18, 0, 8, 4),
     H4 |-> HeadingDefault("SimSun", 16, 50, 6, 3),
     H5 |-> HeadingDefault("SimSun", 14, 70, 5, 2),
     H6 |-> HeadingDefault("SimSun", 12, 90, 4, 2),
     paragraph |->
        [font_name |-> Str("SimSun"), font_size |-> Num(12), bold |-> Bool(FALSE),
         italic |-> Bool(FALSE), color_rgb |-> Tuple(<<0, 0, 0>>),
         line_spacing |-> Num(150), first_line_indent_cm |-> Num(0),
         space_before_pt |-> Num(0), space_after_pt |-> Num(6),
         alignment |-> Str("LEFT")],
     code_block |->
        [font_name |-> Str("Consolas"), font_size |-> Num(10), bold |-> Bool(FALSE),
         italic |-> Bool(FALSE), color_rgb |-> Tuple(<<0, 0, 0>>),
         background_color |-> Str("F0F0F0"), line_spacing |-> Num(100),
         space_before_pt |-> Num(6), space_after_pt |-> Num(6)],
     inline_code |->
        [font_name |-> Str("Consolas"), font_size_ratio |-> Num(90),
         color_rgb |-> Tuple(<<50, 50, 50>>), background_color |-> Str("EEEEEE")]]

StyleKeys == DOMAIN DEFAULT_STYLES_CONFIG

HeadingKeys == {"H1", "H2", "H3", "H4", "H5", "H6"}

\* {k: v.copy() for k, v in sheet.items()}
CopySheet(sheet) == [k \in DOMAIN sheet |-> sheet[k]]

\* a variant of _ensure_rgb_tuples that leaves a list a list
EnsureRgbTuplesBroken(sheet) == sheet

\* _ensure_rgb_tuples: a color_rgb that is a list becomes a tuple
EnsureRgbTuples(sheet) ==
    [k \in DOMAIN sheet |->
        IF "color_rgb" \in DOMAIN sheet[k] /\ sheet[k].color_rgb.k = "list"
        THEN SetItem(sheet[k], "color_rgb", Tuple(sheet[k].color_rgb.c))
        ELSE sheet[k]]

\* __init__(styles_config)
Construct(arg) == EnsureRgbTuples(CopySheet(arg))

\* __init__() with styles_config=None
ConstructDefault == EnsureRgbTuples(CopySheet(DEFAULT_STYLES_CONFIG))

-----------------------------------------------------------------------------
(* The style file.  state: "absent", "malformed" (not JSON), "notobject"    *)
(* (JSON, but the top level is no object), "object".  obj maps each         *)
(* top-level key to [isdict, d]: d holds the fields when the value is a     *)
(* JSON object.                                                             *)

AbsentFile    == [state |-> "absent",    obj |-> <<>>]
MalformedFile == [state |-> "malformed", obj |-> <<>>]
NotObjectFile == [state |-> "notobject", obj |-> <<>>]
ObjectFile(o) == [state |-> "object",    obj |-> o]

JDict(d) == [isdict |-> TRUE,  d |-> d]
JOther   == [isdict |-> FALSE, d |-> EmptyDict]

\* json.dump writes a tuple as an array: it is read back as a list
JsonValue(v) == IF v.k = "tuple" THEN List(v.c) ELSE v

\* save_styles, lines 612-617: the serializable copy of one entry
SerializableEntry(entry) ==
    LET style_copy ==
            IF "color_rgb" \in DOMAIN entry /\ entry.color_rgb.k = "tuple"
            THEN SetItem(entry, "color_rgb", List(entry.color_rgb.c))
            ELSE entry
    IN  [f \in DOMAIN style_copy |-> JsonValue(style_copy[f])]

\* save_styles: the file it writes
SavedFile(sheet) == ObjectFile([k \in DOMAIN sheet |-> JDict(SerializableEntry(sheet[k]))])

\* a variant of the merge that puts the loaded record in place of the default
\* entry instead of updating it
MergeLoadedReplacing(loaded) ==
    [k \in StyleKeys \cup {x \in DOMAIN loaded : loaded[x].isdict} |->
        IF k \in DOMAIN loaded /\ loaded[k].isdict THEN loaded[k].d
        ELSE DEFAULT_STYLES_CONFIG[k]]

\* load_styles, lines 585-594: defaults, updated with the loaded mapping
MergeLoaded(loaded) ==
    [k \in StyleKeys \cup {x \in DOMAIN loaded : loaded[x].isdict} |->
        IF k \in StyleKeys
        THEN IF k \in DOMAIN loaded /\ loaded[k].isdict
             THEN Update(DEFAULT_STYLES_CONFIG[k], loaded[k].d)
             ELSE DEFAULT_STYLES_CONFIG[k]
        ELSE loaded[k].d]

\* a variant of load_styles without the handler of other exceptions: a file
\* that is no JSON object leaves an empty sheet
LoadStylesNoFallback(file) ==
    IF file.state = "object" THEN EnsureRgbTuples(MergeLoaded(file.obj))
    ELSE IF file.state = "notobject" THEN EmptyDict
    ELSE EnsureRgbTuples(CopySheet(DEFAULT_STYLES_CONFIG))

\* load_styles: styles_config afterwards
LoadStyles(file) ==
    IF file.state = "object"
    THEN EnsureRgbTuples(MergeLoaded(file.obj))
    ELSE EnsureRgbTuples(CopySheet(DEFAULT_STYLES_CONFIG))

\* set_styles(new_styles)
SetStyles(new_styles) == EnsureRgbTuples(CopySheet(new_styles))

-----------------------------------------------------------------------------
(* The dict objects behind the sheets.  An entry of a sheet is a dict       *)
(* object; a mapping holds references to its entries.  heap gives the       *)
(* content of each object, refs the mapping of each holder: "class" is the  *)
(* class attribute DEFAULT_STYLES_CONFIG, "converter" is self.styles_config,*)
(* "caller" is the mapping a caller holds (the result of get_styles, the    *)
(* current_styles of the GUI).  The object <<holder, k>> is the entry the   *)
(* holder made for itself under key k.                                      *)

\* the objects of the class body, lines 14-56
ClassObjects ==
    [heap |-> [id \in {<<"class", k>> : k \in StyleKeys} |-> DEFAULT_STYLES_CONFIG[id[2]]],
     refs |-> [h \in {"class", "converter", "caller"} |->
                 IF h = "class" THEN [k \in StyleKeys |-> <<"class", k>>] ELSE EmptyDict]]

\* the mapping a holder sees: each of its keys with the content of the entry
Sheet(objs, holder) ==
    [k \in DOMAIN objs.refs[holder] |-> objs.heap[objs.refs[holder][k]]]

\* a variant of the copy of one entry that hands over the entry itself
CopyEntryShared(holder, k, ref) == ref

\* v.copy(): a new dict object, made by the holder for its key k
CopyEntry(holder, k, ref) == <<holder, k>>

\* holder = {k: v.copy() for k, v in src.items()}, src a mapping of references
CopyEntries(objs, holder, src) ==
    LET new_refs == [k \in DOMAIN src |-> CopyEntry(holder, k, src[k])]
        made     == {new_refs[k] : k \in DOMAIN src}
    IN  [heap |-> Update(objs.heap,
                         [id \in made |-> objs.heap[src[CHOOSE k \in DOMAIN src : new_refs[k] = id]]]),
         refs |-> SetItem(objs.refs, holder, new_refs)]

\* an assignment through the references of a holder: the entry objects under
\* the given keys become F(entry), for every holder that refers to them
AssignVia(objs, holder, keys, F(_)) ==
    LET touched == {objs.refs[holder][k] : k \in keys \cap DOMAIN objs.refs[holder]}
    IN  [objs EXCEPT !.heap = [id \in DOMAIN objs.heap |->
                                  IF id \in touched THEN F(objs.heap[id]) ELSE objs.heap[id]]]

\* _ensure_rgb_tuples on one entry: config['color_rgb'] = tuple(...)
EnsureRgbTuple(config) ==
    IF "color_rgb" \in DOMAIN config /\ config.color_rgb.k = "list"
    THEN SetItem(config, "color_rgb", Tuple(config.color_rgb.c))
    ELSE config

\* the holder forgets its mapping and the entries it made (a local of a call)
Forget(objs, holder) ==
    [heap |-> [id \in {x \in DOMAIN objs.heap : x[1] # holder} |-> objs.heap[id]],
     refs |-> DelItem(objs.refs, holder)]


-----------------------------------------------------------------------------
(* The tag tree (BeautifulSoup).  A node is [tag, text, attrs, kids]; a     *)
(* NavigableString has tag "#text" and its characters in text.  Text is a   *)
(* sequence of tokens; " ", "\n" and "\t" are the whitespace tokens.        *)

Text(t)        == [tag |-> "#text", text |-> t, attrs |-> EmptyDict, kids |-> <<>>]
Tag(name, kids) == [tag |-> name, text |-> <<>>, attrs |-> EmptyDict, kids |-> kids]
TagA(name, attrs, kids) == [tag |-> name, text |-> <<>>, attrs |-> attrs, kids |-> kids]

IsTag(node) == node.tag # "#text"

Whitespace == {" ", "\n", "\t"}

RECURSIVE LStrip(_)
LStrip(t) == IF t # <<>> /\ Head(t) \in Whitespace THEN LStrip(Tail(t)) ELSE t

RECURSIVE RStrip(_)
RStrip(t) ==
    IF t # <<>> /\ t[Len(t)] \in Whitespace THEN RStrip(SubSeq(t, 1, Len(t) - 1)) ELSE t

\* str.strip()
Strip(t) == RStrip(LStrip(t))

RECURSIVE ConcatAll(_)
ConcatAll(ss) == IF ss = <<>> THEN <<>> ELSE Head(ss) \o ConcatAll(Tail(ss))

\* Tag.get_text(): the strings below the node, in document order
RECURSIVE GetText(_)
GetText(node) ==
    IF ~IsTag(node) THEN node.text
    ELSE ConcatAll([i \in 1..Len(node.kids) |-> GetText(node.kids[i])])

\* Tag.find_all(names): the descendants with one of the names, in document order
RECURSIVE FindAll(_, _)
FindAll(node, names) ==
    ConcatAll([i \in 1..Len(node.kids) |->
        (IF node.kids[i].tag \in names THEN <<node.kids[i]>> ELSE <<>>)
            \o FindAll(node.kids[i], names)])

\* str.split('\n')
RECURSIVE SplitLinesFrom(_, _)
SplitLinesFrom(t, cur) ==
    IF t = <<>> THEN <<cur>>
    ELSE IF Head(t) = "\n" THEN <<cur>> \o SplitLinesFrom(Tail(t), <<>>)
    ELSE SplitLinesFrom(Tail(t), Append(cur, Head(t)))

SplitLines(t) == SplitLinesFrom(t, <<>>)

-----------------------------------------------------------------------------
(* Runs and paragraph formats of the document model (python-docx).          *)
(* An optional length is <<>> (None) or <<v>>.                              *)

\* Indent step and hanging indent of a list item, in thousandths of a cm
ListIndentStep == 1270
HangingIndent == -635

\* Cm(1.27 * level)
LevelIndent(level) == ListIndentStep * level

PlainRun(text) ==
    [kind |-> "text", text |-> text, styled |-> FALSE, font_name |-> "", size |-> 0,
     bold |-> FALSE, italic |-> FALSE, color |-> <<>>, shade |-> "", brk |-> FALSE]

\* RGBColor(*color_rgb) accepts three integers in 0..255
RgbOk(v) == Len(v.c) = 3 /\ \A i \in 1..Len(v.c) : v.c[i] \in 0..255

\* _apply_font_style: the size it sets, in hundredths of a point
FontSize(sc, base, has_base) ==
    IF "font_size" \in DOMAIN sc THEN sc.font_size.n * 100
    ELSE IF "font_size_ratio" \in DOMAIN sc /\ has_base THEN base * sc.font_size_ratio.n
    ELSE 1100

\* _apply_font_style(run, style_config, base_font_size_pt) on a run with the text
ApplyFontStyle(text, sc, base, has_base) ==
    LET color == Get(sc, "color_rgb", Str(""))
        colored == color.k \in {"tuple", "list"} /\ Len(color.c) = 3
    IN  [kind |-> "text", text |-> text, styled |-> TRUE,
         font_name |-> Get(sc, "font_name", Str("Calibri")).s,
         size |-> FontSize(sc, base, has_base),
         bold |-> Get(sc, "bold", Bool(FALSE)).n = 1,
         italic |-> Get(sc, "italic", Bool(FALSE)).n = 1,
         color |-> IF colored THEN color.c ELSE <<>>,
         shade |-> Get(sc, "background_color", Str("")).s,
         brk |-> FALSE]

\* what _apply_font_style raises: RGBColor rejects a channel outside 0..255
ApplyFontStyleRaises(sc) ==
    LET color == Get(sc, "color_rgb", Str(""))
    IN  IF color.k \in {"tuple", "list"} /\ Len(color.c) = 3 /\ ~RgbOk(color)
        THEN "ValueError" ELSE ""

\* alignment_map.get(str(alignment).upper(), LEFT)
AlignmentOf(sc) ==
    LET a == Get(sc, "alignment", Str("LEFT")).s
    IN  IF a \in {"LEFT", "CENTER", "RIGHT", "JUSTIFY"} THEN a
        ELSE IF a = "left" THEN "LEFT"
        ELSE IF a = "center" THEN "CENTER"
        ELSE IF a = "right" THEN "RIGHT"
        ELSE IF a = "justify" THEN "JUSTIFY"
        ELSE "LEFT"

\* _apply_paragraph_format(paragraph, style_config)
ApplyParagraphFormat(sc) ==
    [space_before |-> IF "space_before_pt" \in DOMAIN sc THEN <<sc.space_before_pt.n>> ELSE <<>>,
     space_after |-> IF "space_after_pt" \in DOMAIN sc THEN <<sc.space_after_pt.n>> ELSE <<>>,
     line_spacing |-> IF "line_spacing" \in DOMAIN sc THEN <<sc.line_spacing.n>> ELSE <<>>,
     first_line_indent |->
        IF "first_line_indent_cm" \in DOMAIN sc /\ sc.first_line_indent_cm.n > 0
        THEN <<sc.first_line_indent_cm.n * 10>> ELSE <<>>,
     alignment |-> AlignmentOf(sc)]

NoFormat ==
    [space_before |-> <<>>, space_after |-> <<>>, line_spacing |-> <<>>,
     first_line_indent |-> <<>>, alignment |-> ""]


-----------------------------------------------------------------------------
(* Image locators and the file system.  A locator or path is a sequence of  *)
(* components; a first component "/" makes it absolute, "http://",          *)
(* "https://" or "file:///" is its scheme.  fs maps each existing path to   *)
(* "image", "corrupt" (a file add_picture rejects) or "dir".                *)

StartsWith(src, prefixes) == src # <<>> /\ Head(src) \in prefixes

\* os.path.isabs
IsAbs(path) == StartsWith(path, {"/"})

\* os.path.join(md_dir, src)
PathJoin(dir, rel) == IF IsAbs(rel) THEN rel ELSE dir \o rel

\* QUrl(src).toLocalFile()
ToLocalFile(src) == <<"/">> \o Tail(src)

\* os.path.basename
BaseName(path) == IF path = <<>> THEN <<>> ELSE <<path[Len(path)]>>

\* alt_text or img_src
AltOr(alt, other) == IF alt # <<>> THEN alt ELSE other

\* a variant that leaves a relative locator to the process working directory
LocalImgPathCwd(src, md_dir) ==
    IF StartsWith(src, {"file:///"}) THEN ToLocalFile(src) ELSE src

\* local_img_path of _add_image_to_paragraph, lines 155-161
LocalImgPath(src, md_dir) ==
    IF StartsWith(src, {"file:///"}) THEN ToLocalFile(src)
    ELSE IF ~IsAbs(src) /\ md_dir # <<>> THEN PathJoin(md_dir, src)
    ELSE IF IsAbs(src) THEN src
    ELSE <<>>

\* markdown_to_html(md_content, md_dir), lines 644-673: the src attribute of
\* an img element afterwards, for the md_dir the preview always passes
MarkdownToHtmlSrc(src, md_dir, fs) ==
    LET abs_fs_path == IF StartsWith(src, {"file:///"}) THEN ToLocalFile(src)
                       ELSE IF IsAbs(src) THEN src
                       ELSE PathJoin(md_dir, src)
    IN  IF src = <<>> \/ StartsWith(src, {"http://", "https://"}) THEN src
        ELSE IF abs_fs_path \in DOMAIN fs THEN <<"file:///">> \o Tail(abs_fs_path)
        ELSE src

Placeholder(label, body) == PlainRun(<<label>> \o body \o <<"]">>)

PictureRun(path) ==
    [kind |-> "picture", text |-> path, styled |-> FALSE, font_name |-> "", size |-> 0,
     bold |-> FALSE, italic |-> FALSE, color |-> <<>>, shade |-> "", brk |-> FALSE]

BreakRun ==
    [kind |-> "text", text |-> <<>>, styled |-> FALSE, font_name |-> "", size |-> 0,
     bold |-> FALSE, italic |-> FALSE, color |-> <<>>, shade |-> "", brk |-> TRUE]

\* an accumulator [runs, raised] of the runs added to one paragraph
AddRun(acc, run) == [acc EXCEPT !.runs = Append(@, run)]
Raise(acc, exc) == [acc EXCEPT !.raised = exc]

\* a variant that raises for a missing file instead of adding a placeholder
AddImageWithSrcAborting(acc, src, alt, ctx) ==
    LET local == LocalImgPath(src, ctx.md_dir)
    IN  IF StartsWith(src, {"http://", "https://"})
        THEN AddRun(acc, [Placeholder("[Web Image: ", AltOr(alt, src)) EXCEPT !.italic = TRUE])
        ELSE IF local # <<>> /\ local \in DOMAIN ctx.fs
        THEN IF ctx.fs[local] = "image"
             THEN AddRun(acc, PictureRun(local))
             ELSE Raise(acc, "ImageError")
        ELSE Raise(acc, "FileNotFoundError")

\* _add_image_to_paragraph when the img element has a src attribute
AddImageWithSrc(acc, src, alt, ctx) ==
    LET local == LocalImgPath(src, ctx.md_dir)
    IN  IF StartsWith(src, {"http://", "https://"})
        THEN AddRun(acc, [Placeholder("[Web Image: ", AltOr(alt, src)) EXCEPT !.italic = TRUE])
        ELSE IF local # <<>> /\ local \in DOMAIN ctx.fs
        THEN IF ctx.fs[local] = "image"
             THEN AddRun(acc, PictureRun(local))
             ELSE \* add_picture raised: the empty run it was called on stays
                  AddRun(AddRun(acc, PlainRun(<<>>)),
                         Placeholder("[Image load error: ", AltOr(alt, BaseName(local))))
        ELSE AddRun(acc, Placeholder("[Image not found: ", AltOr(alt, src)))

\* _add_image_to_paragraph(paragraph, img_element, md_dir)
AddImageToParagraph(acc, img, ctx) ==
    IF "src" \notin DOMAIN img.attrs
    THEN Raise(acc, "AttributeError")   \* None.startswith
    ELSE AddImageWithSrc(acc, img.attrs.src, Get(img.attrs, "alt", <<>>), ctx)

\* a run styled by _apply_font_style, or what it raises
AddStyledRun(acc, text, sc, base, has_base) ==
    IF ApplyFontStyleRaises(sc) # ""
    THEN Raise(AddRun(acc, PlainRun(text)), ApplyFontStyleRaises(sc))
    ELSE AddRun(acc, ApplyFontStyle(text, sc, base, has_base))

\* a variant that starts from a style without emphasis flags
EmphasisStyleFresh(parent_style_config, flag) ==
    SetItem(SetItem(SetItem(parent_style_config, "bold", Bool(FALSE)), "italic", Bool(FALSE)),
            flag, Bool(TRUE))

\* current_run_style = parent_style_config.copy(); current_run_style[flag] = True
EmphasisStyle(parent_style_config, flag) == SetItem(parent_style_config, flag, Bool(TRUE))

\* _add_inline_content_to_paragraph(paragraph, content_element, parent_style_config, md_dir)
RECURSIVE AddInlineContent(_, _, _, _)
RECURSIVE AddInlineKids(_, _, _, _, _)

AddInlineKids(acc, kids, i, style, ctx) ==
    IF i > Len(kids) \/ acc.raised # "" THEN acc
    ELSE AddInlineKids(AddInlineContent(acc, kids[i], style, ctx), kids, i + 1, style, ctx)

AddInlineContent(acc, node, parent_style, ctx) ==
    LET base == Get(parent_style, "font_size", Num(12)).n
    IN  IF acc.raised # "" THEN acc
        ELSE IF ~IsTag(node)
        THEN IF Strip(node.text) # <<>> \/ node.text = <<" ">>
             THEN AddStyledRun(acc, node.text, parent_style, base, TRUE)
             ELSE acc
        ELSE IF node.tag \in {"strong", "b"}
        THEN AddInlineKids(acc, node.kids, 1, EmphasisStyle(parent_style, "bold"), ctx)
        ELSE IF node.tag \in {"em", "i"}
        THEN AddInlineKids(acc, node.kids, 1, EmphasisStyle(parent_style, "italic"), ctx)
        ELSE IF node.tag = "code"
        THEN IF GetText(node) # <<>>
             THEN AddStyledRun(acc, GetText(node), Get(ctx.styles, "inline_code", EmptyDict),
                               base, TRUE)
             ELSE acc
        ELSE IF node.tag = "img"
        THEN AddImageToParagraph(acc, node, ctx)
        ELSE IF node.tag = "a"
        THEN AddStyledRun(acc, GetText(node), parent_style, base, TRUE)
        ELSE IF node.tag = "br"
        THEN AddRun(acc, BreakRun)
        ELSE AddInlineKids(acc, node.kids, 1, parent_style, ctx)


-----------------------------------------------------------------------------
(* Blocks of the document: paragraphs, headings and tables, in the order of *)
(* doc.add_paragraph / add_heading / add_table.  origin is the path of the  *)
(* node that made the block (child indices from the top of the soup).       *)

Block(kind, style, fmt, left_indent, runs, origin) ==
    [kind |-> kind, style |-> style, fmt |-> fmt, left_indent |-> left_indent,
     runs |-> runs, rows |-> <<>>, header |-> FALSE, shade |-> "", width |-> 0,
     origin |-> origin]

EmptyCell == [text |-> <<>>, bold |-> FALSE, centered |-> FALSE]

\* the conversion state: the blocks added so far and the exception raised
AddBlock(st, b) == [st EXCEPT !.doc = Append(@, b)]

NoRuns == [runs |-> <<>>, raised |-> ""]

\* Cm(1.27 * current_list_level) when current_list_level > 0
NestedIndent(level) == IF level > 0 THEN <<LevelIndent(level)>> ELSE <<>>

HeadingLevelOf(tag) ==
    CASE tag = "h1" -> 1 [] tag = "h2" -> 2 [] tag = "h3" -> 3
      [] tag = "h4" -> 4 [] tag = "h5" -> 5 [] tag = "h6" -> 6

HeadingStyleKey(tag) ==
    CASE tag = "h1" -> "H1" [] tag = "h2" -> "H2" [] tag = "h3" -> "H3"
      [] tag = "h4" -> "H4" [] tag = "h5" -> "H5" [] tag = "h6" -> "H6"

HeadingStyleName(tag) ==
    CASE tag = "h1" -> "Heading 1" [] tag = "h2" -> "Heading 2" [] tag = "h3" -> "Heading 3"
      [] tag = "h4" -> "Heading 4" [] tag = "h5" -> "Heading 5" [] tag = "h6" -> "Heading 6"

HeadingTags == {"h1", "h2", "h3", "h4", "h5", "h6"}

\* self.styles_config.get('paragraph', self.DEFAULT_STYLES_CONFIG['paragraph'])
ParaStyleConfig(ctx) == Get(ctx.styles, "paragraph", DEFAULT_STYLES_CONFIG.paragraph)

\* _process_html_element, heading branch (lines 235-260)
ProcessHeading(st, el, path, level, ctx) ==
    LET sc  == Get(ctx.styles, HeadingStyleKey(el.tag), ParaStyleConfig(ctx))
        acc == AddInlineKids(NoRuns, el.kids, 1, sc, ctx)
    IN  [doc |-> Append(st.doc, Block("heading", HeadingStyleName(el.tag),
                                       ApplyParagraphFormat(sc), NestedIndent(level),
                                       acc.runs, path)),
         raised |-> acc.raised]

\* _process_html_element, p branch (lines 263-275)
ProcessParagraph(st, el, path, level, ctx) ==
    LET sc  == ParaStyleConfig(ctx)
        acc == AddInlineKids(NoRuns, el.kids, 1, sc, ctx)
    IN  [doc |-> Append(st.doc, Block("paragraph", "Normal", ApplyParagraphFormat(sc),
                                       NestedIndent(level), acc.runs, path)),
         raised |-> acc.raised]

\* the runs of a code block: one per line, a break after all but the last
CodeLines(code_text) == SplitLines(code_text)

CodeRuns(code_text, sc) ==
    LET lines == CodeLines(code_text)
    IN  [i \in 1..Len(lines) |->
            [ApplyFontStyle(lines[i], sc, 0, FALSE) EXCEPT !.brk = (i < Len(lines))]]

\* _process_html_element, pre branch (lines 290-321)
ProcessPre(st, el, path, level, ctx) ==
    LET codes == FindAll(el, {"code"})
        code_text == IF codes # <<>> THEN GetText(codes[1]) ELSE GetText(el)
        sc == Get(ctx.styles, "code_block", DEFAULT_STYLES_CONFIG.code_block)
        content_width == 16000 - LevelIndent(level)
        b == [Block("code", "Table", [ApplyParagraphFormat(sc) EXCEPT !.first_line_indent = <<>>],
                    <<>>, CodeRuns(code_text, sc), path)
                EXCEPT !.shade = Get(sc, "background_color", Str("")).s,
                       !.width = IF content_width > 5000 THEN content_width ELSE 5000]
    IN  IF ApplyFontStyleRaises(sc) # ""
        THEN [doc |-> Append(st.doc, [b EXCEPT !.runs = <<>>]), raised |-> ApplyFontStyleRaises(sc)]
        ELSE AddBlock(st, b)

\* the cells written into one row of the Word table: cell i of the source
\* goes to column i when i < num_cols
FillRow(src_cells, num_cols, is_header) ==
    [cells |-> [i \in 1..num_cols |->
                    IF i <= Len(src_cells)
                    THEN [text |-> Strip(GetText(src_cells[i])), bold |-> is_header,
                          centered |-> is_header]
                    ELSE EmptyCell],
     raised |-> ""]

\* the data rows (lines 378-384): one add_row per html row, its td cells
RECURSIVE DataRows(_, _, _)
DataRows(html_rows, i, num_cols) ==
    IF i > Len(html_rows) THEN [rows |-> <<>>, raised |-> ""]
    ELSE LET row == FillRow(FindAll(html_rows[i], {"td"}), num_cols, FALSE)
             rest == DataRows(html_rows, i + 1, num_cols)
         IN  IF row.raised # ""
             THEN [rows |-> <<row.cells>>, raised |-> row.raised]
             ELSE [rows |-> <<row.cells>> \o rest.rows, raised |-> rest.raised]

\* a variant that writes the first row as a data row whatever its cells
FirstRowAlwaysData(first_row, first_row_cells, num_cols) ==
    FillRow(first_row_cells, num_cols, FALSE)

\* the first row of the Word table (lines 356-375)
FirstRow(first_row, first_row_cells, num_cols) ==
    IF \E i \in 1..Len(first_row_cells) : first_row_cells[i].tag = "th"
    THEN FillRow(FindAll(first_row, {"th"}), num_cols, TRUE)
    ELSE FillRow(first_row_cells, num_cols, FALSE)

\* _process_html_element, table branch (lines 340-384)
ProcessTable(st, el, path, level, ctx) ==
    LET html_rows == FindAll(el, {"tr"})
        first_row_cells == FindAll(html_rows[1], {"th", "td"})
        num_cols == Len(first_row_cells)
        is_header_row == \E i \in 1..Len(first_row_cells) : first_row_cells[i].tag = "th"
        first == FirstRow(html_rows[1], first_row_cells, num_cols)
        data == DataRows(html_rows, 2, num_cols)
    IN  IF html_rows = <<>> THEN st
        ELSE IF num_cols = 0 THEN st
        ELSE [doc |-> Append(st.doc,
                 [Block("table", "TableGrid", NoFormat, <<>>, <<>>, path)
                    EXCEPT !.rows = <<first.cells>> \o (IF first.raised = "" THEN data.rows ELSE <<>>),
                           !.header = is_header_row]),
              raised |-> IF first.raised # "" THEN first.raised ELSE data.raised]

\* _process_html_element, hr branch (lines 387-401)
ProcessRule(st, el, path, level, ctx) ==
    AddBlock(st, Block("rule", "Normal",
                       [NoFormat EXCEPT !.space_before = <<6>>, !.space_after = <<6>>],
                       <<>>, <<>>, path))


-----------------------------------------------------------------------------
(* Lists, list items, blockquotes and the block dispatch.                   *)

InlineTagsOfItem == {"strong", "b", "em", "i", "code", "a", "img", "br"}

\* style_name = 'ListBullet' if list_type_tag == 'ul' else 'ListNumber'
ListStyleName(list_type_tag) == IF list_type_tag = "ul" THEN "ListBullet" ELSE "ListNumber"

\* a variant with one indent step for every nested level
ListItemIndentFlat(list_level) == IF list_level > 0 THEN ListIndentStep ELSE 0

\* left indent of the bullet paragraph: Cm(1.27 * list_level)
ListItemIndent(list_level) == LevelIndent(list_level)

\* doc.add_paragraph(style=style_name) with its format (lines 451-455)
ListParagraph(path, list_level, list_type_tag, ctx) ==
    Block("paragraph", ListStyleName(list_type_tag),
          [ApplyParagraphFormat(ParaStyleConfig(ctx)) EXCEPT !.first_line_indent = <<HangingIndent>>],
          <<ListItemIndent(list_level)>>, <<>>, path)

\* the loop state of _process_list_item_content: the conversion state, the
\* index in doc of first_para_in_item (0: None), current_block_is_first_in_li
ItemLoop(st, first, is_first) == [st |-> st, first |-> first, is_first |-> is_first]

\* if first_para_in_item is None: create it
WithFirstPara(ls, path, list_level, list_type_tag, ctx) ==
    IF ls.first = 0
    THEN [ls EXCEPT !.st = AddBlock(ls.st, ListParagraph(path, list_level, list_type_tag, ctx)),
                    !.first = Len(ls.st.doc) + 1]
    ELSE ls

\* _add_inline_content_to_paragraph(first_para_in_item, child_node, para_style_config, md_dir)
InlineIntoFirstPara(ls, node, ctx) ==
    LET acc == AddInlineContent([runs |-> ls.st.doc[ls.first].runs, raised |-> ""],
                                node, ParaStyleConfig(ctx), ctx)
    IN  [ls EXCEPT !.st = [doc |-> [ls.st.doc EXCEPT ![ls.first].runs = acc.runs],
                           raised |-> acc.raised],
                   !.is_first = FALSE]

\* a variant that adds no paragraph for an item without content
FinishItemNoEmpty(ls, path, list_level, list_type_tag, ctx) == ls.st

\* lines 496-502: an item that made no paragraph gets an empty one
FinishItem(ls, path, list_level, list_type_tag, ctx) ==
    IF ls.st.raised = "" /\ ls.first = 0
    THEN AddBlock(ls.st, ListParagraph(path, list_level, list_type_tag, ctx))
    ELSE ls.st

\* a variant that dispatches the blocks inside a list item at the level of the item
ChildLevelSame(list_level) == list_level

\* the level at which the blocks inside a list item are dispatched
ChildLevel(list_level) == list_level + 1

RECURSIVE ProcessHtmlElement(_, _, _, _, _, _)
RECURSIVE ProcessList(_, _, _, _, _)
RECURSIVE ProcessListItems(_, _, _, _, _, _)
RECURSIVE ProcessListItemContent(_, _, _, _, _, _)
RECURSIVE ItemKids(_, _, _, _, _, _, _)
RECURSIVE ProcessBlockquoteKids(_, _, _, _, _, _, _)

\* the for loop of _process_list_item_content over item_html.contents (lines 448-494)
ItemKids(ls, item, i, path, list_level, list_type_tag, ctx) ==
    IF i > Len(item.kids) \/ ls.st.raised # "" THEN ls
    ELSE LET child == item.kids[i]
             next ==
                IF ~IsTag(child)
                THEN IF Strip(child.text) # <<>>
                     THEN InlineIntoFirstPara(
                              WithFirstPara(ls, path, list_level, list_type_tag, ctx), child, ctx)
                     ELSE ls
                ELSE IF child.tag \in InlineTagsOfItem
                THEN InlineIntoFirstPara(
                         WithFirstPara(ls, path, list_level, list_type_tag, ctx), child, ctx)
                ELSE LET ls1 == IF ls.first = 0 /\ ls.is_first
                                THEN WithFirstPara(ls, path, list_level, list_type_tag, ctx)
                                ELSE ls
                     IN  [ls1 EXCEPT
                            !.st = ProcessHtmlElement(ls1.st, child, Append(path, i),
                                                      ChildLevel(list_level), TRUE, ctx),
                            !.is_first = FALSE]
         IN  ItemKids(next, item, i + 1, path, list_level, list_type_tag, ctx)

\* _process_list_item_content(doc, item_html, md_dir, list_level, list_type_tag)
ProcessListItemContent(st, item, path, list_level, list_type_tag, ctx) ==
    FinishItem(ItemKids(ItemLoop(st, 0, TRUE), item, 1, path, list_level, list_type_tag, ctx),
               path, list_level, list_type_tag, ctx)

\* a variant whose level is shared with the lists inside the items: it stays
\* raised after an item that holds a list or a blockquote
RECURSIVE ProcessListItemsLeaking(_, _, _, _, _, _)
ProcessListItemsLeaking(st, list_el, i, path, level, ctx) ==
    IF i > Len(list_el.kids) \/ st.raised # "" THEN st
    ELSE ProcessListItemsLeaking(
            IF list_el.kids[i].tag = "li"
            THEN ProcessListItemContent(st, list_el.kids[i], Append(path, i), level,
                                        list_el.tag, ctx)
            ELSE st,
            list_el, i + 1, path,
            IF FindAll(list_el.kids[i], {"ul", "ol", "blockquote"}) # <<>>
            THEN level + 1 ELSE level,
            ctx)

\* the for loop of _process_list over find_all('li', recursive=False)
ProcessListItems(st, list_el, i, path, level, ctx) ==
    IF i > Len(list_el.kids) \/ st.raised # "" THEN st
    ELSE ProcessListItems(
            IF list_el.kids[i].tag = "li"
            THEN ProcessListItemContent(st, list_el.kids[i], Append(path, i), level,
                                        list_el.tag, ctx)
            ELSE st,
            list_el, i + 1, path, level, ctx)

\* _process_list(doc, list_element_html, md_dir, level)
ProcessList(st, list_el, path, level, ctx) == ProcessListItems(st, list_el, 1, path, level, ctx)

\* _process_html_element, blockquote branch (lines 403-412)
ProcessBlockquoteKids(st, el, i, path, level, in_list_item, ctx) ==
    IF i > Len(el.kids) \/ st.raised # "" THEN st
    ELSE ProcessBlockquoteKids(
            IF IsTag(el.kids[i]) \/ Strip(el.kids[i].text) # <<>>
            THEN ProcessHtmlElement(st, el.kids[i], Append(path, i), level + 1, in_list_item, ctx)
            ELSE st,
            el, i + 1, path, level, in_list_item, ctx)

\* _process_html_element(doc, element, md_dir, current_list_level, in_list_item)
ProcessHtmlElement(st, el, path, level, in_list_item, ctx) ==
    IF st.raised # "" THEN st
    ELSE IF ~IsTag(el) THEN [st EXCEPT !.raised = "TypeError"]  \* re.match on element.name = None
    ELSE IF el.tag \in HeadingTags THEN ProcessHeading(st, el, path, level, ctx)
    ELSE IF el.tag = "p" THEN ProcessParagraph(st, el, path, level, ctx)
    ELSE IF el.tag = "pre" THEN ProcessPre(st, el, path, level, ctx)
    ELSE IF el.tag \in {"ul", "ol"} THEN ProcessList(st, el, path, level, ctx)
    ELSE IF el.tag = "table" THEN ProcessTable(st, el, path, level, ctx)
    ELSE IF el.tag = "hr" THEN ProcessRule(st, el, path, level, ctx)
    ELSE IF el.tag = "blockquote"
    THEN ProcessBlockquoteKids(st, el, 1, path, level, in_list_item, ctx)
    ELSE st

\* the loop of markdown_to_docx over soup.find_all(True, recursive=False) (lines 569-570)
RECURSIVE ProcessTopLevel(_, _, _, _)
ProcessTopLevel(st, soup, i, ctx) ==
    IF i > Len(soup) \/ st.raised # "" THEN st
    ELSE ProcessTopLevel(
            IF IsTag(soup[i]) THEN ProcessHtmlElement(st, soup[i], <<i>>, 0, FALSE, ctx) ELSE st,
            soup, i + 1, ctx)

\* markdown_to_docx, lines 539-565: the Heading styles; RGBColor(*color_rgb)
\* is called on whatever color_rgb holds
HeadingStylesRaise(styles) ==
    IF \E k \in HeadingKeys : k \in DOMAIN styles /\ "color_rgb" \in DOMAIN styles[k]
                              /\ ~(styles[k].color_rgb.k \in {"tuple", "list"}
                                   /\ RgbOk(styles[k].color_rgb))
    THEN "ValueError" ELSE ""

\* a variant of markdown_to_docx that does not look for the source file
MarkdownToDocxUnchecked(styles, soup, md_file_path, fs) ==
    LET ctx == [styles |-> styles, md_dir |-> SubSeq(md_file_path, 1, Len(md_file_path) - 1),
                fs |-> fs]
        st  == IF HeadingStylesRaise(styles) # ""
               THEN [doc |-> <<>>, raised |-> HeadingStylesRaise(styles)]
               ELSE ProcessTopLevel([doc |-> <<>>, raised |-> ""], soup, 1, ctx)
    IN  [doc |-> st.doc, raised |-> st.raised, saved |-> st.raised = ""]

\* markdown_to_docx(md_file_path, docx_file_path): soup is the tag tree of the
\* source when it exists; the blocks, the exception raised, whether doc.save ran
MarkdownToDocx(styles, soup, md_file_path, fs) ==
    LET md_dir == SubSeq(md_file_path, 1, Len(md_file_path) - 1)
        ctx == [styles |-> styles, md_dir |-> md_dir, fs |-> fs]
        st  == IF md_file_path \notin DOMAIN fs
               THEN [doc |-> <<>>, raised |-> "FileNotFoundError"]
               ELSE IF HeadingStylesRaise(styles) # ""
               THEN [doc |-> <<>>, raised |-> HeadingStylesRaise(styles)]
               ELSE ProcessTopLevel([doc |-> <<>>, raised |-> ""], soup, 1, ctx)
    IN  [doc |-> st.doc, raised |-> st.raised, saved |-> st.raised = ""]


-----------------------------------------------------------------------------
(* The preview rule set (WordPreviewWidget.set_content of src/main.py).     *)
(* Lengths are in 1/300 of a pixel, so that 4/3 of a point and a ratio in   *)
(* hundredths stay integers; the text indent is in millionths of a pixel.   *)

\* the rules of default_styles (lines 166-220) that do not depend on a size,
\* with the background the pre selector ends up with: the rule of the
\* code_block entry (lines 108-110, 132-133) comes after the default one
PreviewDefaults(styles) ==
    [list_padding_left |-> 40,
     nested_list_padding_left |-> 20,
     th_bold |-> TRUE,
     th_align |-> "left",
     pre_background |->
        IF "code_block" \in DOMAIN styles /\ "background_color" \in DOMAIN styles.code_block
        THEN styles.code_block.background_color.s ELSE "f9f9f9"]

\* the rules dynamic_css holds for one style entry (lines 76-125); <<>> where
\* it has no rule
PreviewRules(styles, style_name) ==
    LET style_data == styles[style_name]
        para_font_size == Get(Get(styles, "paragraph", EmptyDict), "font_size", Num(12)).n
        spaced == style_name \in HeadingKeys \cup {"paragraph"}
    IN  [font_size |->
            IF "font_size" \in DOMAIN style_data
            THEN IF style_name = "inline_code" /\ "font_size_ratio" \in DOMAIN style_data
                 THEN <<para_font_size * 4 * style_data.font_size_ratio.n>>
                 ELSE <<style_data.font_size.n * 400>>
            ELSE <<>>,
         margin_top |->
            IF spaced /\ "space_before_pt" \in DOMAIN style_data
            THEN <<style_data.space_before_pt.n * 400>> ELSE <<>>,
         margin_bottom |->
            IF spaced /\ "space_after_pt" \in DOMAIN style_data
            THEN <<style_data.space_after_pt.n * 400>> ELSE <<>>,
         text_indent |->
            IF style_name = "paragraph" /\ "first_line_indent_cm" \in DOMAIN style_data
            THEN <<style_data.first_line_indent_cm.n * 377952>> ELSE <<>>]


-----------------------------------------------------------------------------
(* The environment of a conversion.                                         *)

\* no GUI: the converter class is driven directly
NoGui == current_styles = EmptyDict /\ style_widgets = EmptyDict /\ ops = 0 /\ objects = ClassObjects

\* os.path.dirname(os.path.abspath(md_file_path))
MdDir == <<"/", "docs">>

\* md_file_path
MdPath == MdDir \o <<"doc.md">>

\* a file system that holds the source directory with the source file and no image
SourceDirOnly == [p \in {MdDir, MdPath} |-> IF p = MdDir THEN "dir" ELSE "file"]

\* no conversion has been made
NoDocx == [doc |-> <<>>, raised |-> "", saved |-> FALSE]

-----------------------------------------------------------------------------
(* A client of the converter class: MarkdownToWordConverter(styles_config), *)
(* then save_styles(path), then load_styles(path).                          *)

\* entries a caller can put under a built-in key
EntryInputs(k) ==
    LET d == DEFAULT_STYLES_CONFIG[k]
    IN  {d,
         SetItem(d, "color_rgb", Tuple(<<255, 0, 128>>)),
         SetItem(d, "color_rgb", Tuple(<<1, 2, 3>>)),
         SetItem(d, "color_rgb", List(<<10, 20, 30>>)),
         SetItem(d, "font_name", Str("Arial")),
         SetItem(d, "underline", Bool(TRUE)),
         DelItem(d, "color_rgb"),
         DelItem(d, "font_name"),
         DelItem(d, "alignment"),
         DelItem(d, "space_after_pt")}

\* an entry under a key that is no built-in style key
TableHeaderEntry == [bold |-> Bool(TRUE), color_rgb |-> Tuple(<<9, 8, 7>>)]

\* the styles_config arguments given to the constructor
SheetInputs ==
    LET one == UNION {{SetItem(DEFAULT_STYLES_CONFIG, k, e) : e \in EntryInputs(k)} : k \in StyleKeys}
    IN  one
        \cup {SetItem(s, "table_header", TableHeaderEntry) : s \in one}
        \cup {DelItem(DEFAULT_STYLES_CONFIG, k) : k \in StyleKeys}

InitRoundTrip ==
    /\ styles_config \in {Construct(s) : s \in SheetInputs}
    /\ style_file = AbsentFile
    /\ saved_sheet = EmptyDict
    /\ loaded_file = AbsentFile
    /\ pc = "constructed"
    /\ md_soup = <<>>
    /\ disk = SourceDirOnly
    /\ docx = NoDocx
    /\ NoGui

\* save_styles(file_path): the write can fail (open raises); the except
\* clause prints and returns, the file is as it was
SaveStylesCall ==
    /\ pc \in {"constructed", "file_loaded"}
    /\ \E written \in BOOLEAN :
        IF written
        THEN /\ style_file' = SavedFile(styles_config)
             /\ saved_sheet' = styles_config
             /\ pc' = IF pc = "constructed" THEN "saved" ELSE "file_saved"
        ELSE /\ pc' = IF pc = "constructed" THEN "save_failed" ELSE "file_save_failed"
             /\ UNCHANGED <<style_file, saved_sheet>>
    /\ UNCHANGED <<styles_config, loaded_file, objects, md_soup, disk, docx, gui>>

\* load_styles(file_path) on the same path
LoadStylesCall ==
    /\ pc \in {"saved", "save_failed", "file_given"}
    /\ styles_config' = LoadStyles(style_file)
    /\ loaded_file' = style_file
    /\ pc' = CASE pc = "saved" -> "loaded"
              [] pc = "save_failed" -> "loaded_unsaved"
              [] pc = "file_given" -> "file_loaded"
    /\ UNCHANGED <<style_file, saved_sheet, objects, md_soup, disk, docx, gui>>

NextRoundTrip == SaveStylesCall \/ LoadStylesCall

SpecRoundTrip == InitRoundTrip /\ [][NextRoundTrip]_vars

\* every built-in style key is present (every entry of a sheet is a mapping)
HasBuiltinKeys(sheet) == StyleKeys \subseteq DOMAIN sheet

\* every built-in style key is present with every field of its default entry
FullyResolved(sheet) ==
    \A k \in StyleKeys :
        /\ k \in DOMAIN sheet
        /\ DOMAIN DEFAULT_STYLES_CONFIG[k] \subseteq DOMAIN sheet[k]

-----------------------------------------------------------------------------
(* A client that converts one document: MarkdownToWordConverter(), then     *)
(* markdown_to_docx(md_file_path, docx_file_path) on an existing source.    *)

\* the sequences over S of length at most n
SeqsUpTo(S, n) == UNION {[1..k -> S] : k \in 0..n}

ConvertCall ==
    /\ pc \in {"ready", "file_loaded"}
    /\ docx' = MarkdownToDocx(styles_config, md_soup, MdPath, disk)
    /\ pc' = "converted"
    /\ UNCHANGED <<styles_config, style_file, saved_sheet, loaded_file, objects, md_soup, disk, gui>>

NextConvert == ConvertCall

\* the state before the conversion of a document
ReadyToConvert(soups, disks) ==
    /\ styles_config = ConstructDefault
    /\ style_file = AbsentFile
    /\ saved_sheet = EmptyDict
    /\ loaded_file = AbsentFile
    /\ md_soup \in soups
    /\ disk \in disks
    /\ docx = NoDocx
    /\ NoGui
    /\ pc = "ready"

-----------------------------------------------------------------------------
(* Code blocks: <pre><code>text</code></pre>, as fenced_code makes them.    *)

MaxCodeLen == 4

CodeChars == {"a", "b", "\n"}

CodeBlockSoups == {<<Tag("pre", <<Tag("code", <<Text(t)>>)>>)>> : t \in SeqsUpTo(CodeChars, MaxCodeLen)}

InitCode == ReadyToConvert(CodeBlockSoups, {SourceDirOnly})

SpecCode == InitCode /\ [][NextConvert]_vars

\* the text of the code block of the document
CodeTextOfSoup == md_soup[1].kids[1].kids[1].text

\* the lines of the text, the empty line after a final newline dropped
LinesDroppingTrailing(code_text) ==
    LET ls == SplitLines(code_text)
    IN  IF Len(ls) > 1 /\ ls[Len(ls)] = <<>> THEN SubSeq(ls, 1, Len(ls) - 1) ELSE ls

\* C6: the literal lines emitted for a code block are the lines of its text
\* in order, interior empty lines kept; the empty line that a final newline
\* creates is dropped.
C6_CodeLines ==
    pc = "converted" =>
        /\ Len(docx.doc) = 1
        /\ [i \in 1..Len(docx.doc[1].runs) |-> docx.doc[1].runs[i].text]
              = LinesDroppingTrailing(CodeTextOfSoup)


-----------------------------------------------------------------------------
(* Tables.  A source table is a sequence of rows, a row a sequence of cell  *)
(* tags ("th" or "td"); cell j of row i holds the text " i j".  The rows    *)
(* are direct children of <table>, or wrapped in <thead> and <tbody> as the *)
(* tables extension writes them.                                            *)

MaxRows == 3
MaxCols == 2

CellText(i, j) == <<" ", ToString(i), ToString(j)>>

RowTags == UNION {[1..n -> {"th", "td"}] : n \in 0..MaxCols}

TableShapes == UNION {[1..r -> RowTags] : r \in 1..MaxRows}

RowNode(shape, i) ==
    Tag("tr", [j \in 1..Len(shape[i]) |-> Tag(shape[i][j], <<Text(CellText(i, j))>>)])

TableNode(shape, wrapped) ==
    LET trs == [i \in 1..Len(shape) |-> RowNode(shape, i)]
    IN  IF wrapped
        THEN Tag("table", <<Tag("thead", <<trs[1]>>), Tag("tbody", Tail(trs))>>)
        ELSE Tag("table", trs)

TableSoups == {<<TableNode(shape, w)>> : shape \in TableShapes, w \in BOOLEAN}

InitTable == ReadyToConvert(TableSoups, {SourceDirOnly})

SpecTable == InitTable /\ [][NextConvert]_vars

\* the rows of the source table and the cells (th or td) of each
SourceRows == FindAll(md_soup[1], {"tr"})
SourceCells(r) == FindAll(SourceRows[r], {"th", "td"})

\* the rows of the Word table that the conversion made (none: no table)
OutputRows == IF docx.doc = <<>> THEN <<>> ELSE docx.doc[1].rows

AllCells(row, P(_)) == \A j \in 1..Len(row) : P(row[j])

IsHeaderCell(c) == c.bold /\ c.centered
IsPlainCell(c) == ~c.bold /\ ~c.centered
IsTh(n) == n.tag = "th"
IsTd(n) == n.tag = "td"

\* the number of output rows whose cells are styled as header cells
HeaderRowCount ==
    Cardinality({r \in 1..Len(OutputRows) : \E j \in 1..Len(OutputRows[r]) : OutputRows[r][j].bold})

C8_TableColumns ==
    pc = "converted" =>
        LET C == Len(SourceCells(1))
        IN  /\ docx.raised = ""
            /\ docx.saved
            /\ \A r \in 1..Len(OutputRows) :
                  /\ Len(OutputRows[r]) = C
                  /\ \A j \in 1..C : j > Len(SourceCells(r)) => OutputRows[r][j] = EmptyCell
                  /\ \A k \in 1..Len(SourceCells(r)) :
                        k > C => \A j \in 1..C :
                                    OutputRows[r][j].text # Strip(GetText(SourceCells(r)[k]))


\* C27: in every row of the table, the text written to output column i,
\* i within the column count, is the text of the i-th cell of the source
\* row, th and td cells counted together.
C27_CellColumns ==
    (pc = "converted" /\ OutputRows # <<>>) =>
        \A r \in 1..Len(OutputRows) :
            \A i \in 1..Len(OutputRows[r]) :
                i <= Len(SourceCells(r)) =>
                    OutputRows[r][i].text = Strip(GetText(SourceCells(r)[i]))

\* C22: the preview rule set has the constants of the exporter: the list
\* indentation per depth is the exporter's 1.27 cm step in pixels (96 px are
\* 2.54 cm), for the first and for every nested level; header cells are
\* bold and centered in both; the shading of a code block is the
\* background_color of the code_block entry in both.
C22_PreviewConstants ==
    pc = "converted" =>
        LET preview == PreviewDefaults(styles_config)
        IN  /\ preview.list_padding_left * 2540 = ListIndentStep * 96
            /\ preview.nested_list_padding_left * 2540 = ListIndentStep * 96
            /\ (docx.doc # <<>> /\ docx.doc[1].header) =>
                  \A j \in 1..Len(OutputRows[1]) :
                      OutputRows[1][j].text # <<>> =>
                          /\ OutputRows[1][j].bold = preview.th_bold
                          /\ OutputRows[1][j].centered = (preview.th_align = "center")
            /\ preview.pre_background = styles_config.code_block.background_color.s


-----------------------------------------------------------------------------
(* Images.  One img element, with or without src and alt attributes, in a   *)
(* paragraph between two words, inside <strong>, or in a list item.         *)

ImageSrcs ==
    {<<"http://", "host", "x.png">>, <<"https://", "host", "x.png">>,
     <<"file:///", "docs", "img", "x.png">>, <<"/", "abs", "x.png">>,
     <<"img", "x.png">>, <<"x.png">>, <<>>}

ImageAlts == {<<>>, <<"diagram">>}

ImageAttrs ==
    {[a \in {"src", "alt"} |-> IF a = "src" THEN src ELSE alt] : src \in ImageSrcs, alt \in ImageAlts}
    \cup {[a \in {"src"} |-> src] : src \in ImageSrcs}
    \cup {[a \in {"alt"} |-> alt] : alt \in ImageAlts}

ImageElements == {TagA("img", attrs, <<>>) : attrs \in ImageAttrs}

ImageSoups ==
    UNION {{<<Tag("p", <<Text(<<"a">>), img, Text(<<"b">>)>>)>>,
            <<Tag("p", <<Tag("strong", <<Text(<<"a">>), img>>), Text(<<" ">>), Text(<<"b">>)>>)>>,
            <<Tag("ul", <<Tag("li", <<img, Text(<<"b">>)>>)>>)>>}
           : img \in ImageElements}

\* file systems: no image; the image in the source directory; a file there
\* that is no image; the image under /abs; the image only under the
\* process working directory (a relative path names it)
ImageDisks ==
    {SourceDirOnly,
     Update(SourceDirOnly, [p \in {MdDir \o <<"img", "x.png">>} |-> "image"]),
     Update(SourceDirOnly, [p \in {MdDir \o <<"img", "x.png">>} |-> "corrupt"]),
     Update(SourceDirOnly, [p \in {<<"/", "abs", "x.png">>} |-> "image"]),
     Update(SourceDirOnly, [p \in {<<"img", "x.png">>} |-> "image"])}

InitImage == ReadyToConvert(ImageSoups, ImageDisks)

SpecImage == InitImage /\ [][NextConvert]_vars

\* t holds sub as a contiguous part
Contains(t, sub) == \E i \in 1..(Len(t) - Len(sub) + 1) : SubSeq(t, i, i + Len(sub) - 1) = sub

RECURSIVE AllNodes(_)
AllNodes(nodes) ==
    IF nodes = <<>> THEN <<>>
    ELSE <<Head(nodes)>> \o AllNodes(Head(nodes).kids) \o AllNodes(Tail(nodes))

SelectTag(nodes, tag) == SelectSeq(nodes, LAMBDA n : n.tag = tag)

\* the img element of the document
TheImage == SelectTag(AllNodes(md_soup), "img")[1]

RECURSIVE WithoutImages(_)
WithoutImages(nodes) ==
    IF nodes = <<>> THEN <<>>
    ELSE IF Head(nodes).tag = "img" THEN WithoutImages(Tail(nodes))
    ELSE <<[Head(nodes) EXCEPT !.kids = WithoutImages(@)]>> \o WithoutImages(Tail(nodes))

\* the runs of all blocks of a document, in order
AllRuns(doc) == ConcatAll([i \in 1..Len(doc) |-> doc[i].runs])

\* the image reference is remote
IsRemote(src) == StartsWith(src, {"http://", "https://"})

\* the path a local reference names: a file URL its local file, a relative
\* locator the path under the source document's directory
ReferencedPath(src) ==
    IF StartsWith(src, {"file:///"}) THEN <<"/">> \o Tail(src)
    ELSE IF IsAbs(src) THEN src
    ELSE MdDir \o src

IsPlaceholder(run) ==
    /\ run.kind = "text"
    /\ run.text # <<>>
    /\ Head(run.text) \in {"[Web Image: ", "[Image not found: ", "[Image load error: "}
    /\ run.text[Len(run.text)] = "]"

\* C9: for an image reference that is remote or whose local path does not
\* exist the conversion does not abort, exactly one placeholder run is added,
\* its text contains the alt text (the locator when alt is empty), and the
\* other runs are those of the same document without the image.
C9_UnresolvedImage ==
    (/\ pc = "converted"
     /\ "src" \in DOMAIN TheImage.attrs
     /\ \/ IsRemote(TheImage.attrs.src)
        \/ ReferencedPath(TheImage.attrs.src) \notin DOMAIN disk) =>
        LET src == TheImage.attrs.src
            alt == IF "alt" \in DOMAIN TheImage.attrs THEN TheImage.attrs.alt ELSE <<>>
            runs == AllRuns(docx.doc)
            placeholders == {i \in 1..Len(runs) : IsPlaceholder(runs[i])}
            plain == MarkdownToDocx(styles_config, WithoutImages(md_soup), MdPath, disk)
        IN  /\ docx.raised = ""
            /\ docx.saved
            /\ Cardinality(placeholders) = 1
            /\ \A i \in placeholders :
                  /\ Contains(runs[i].text, IF alt # <<>> THEN alt ELSE src)
                  /\ SubSeq(runs, 1, i - 1) \o SubSeq(runs, i + 1, Len(runs)) = AllRuns(plain.doc)
            /\ Len(docx.doc) = Len(plain.doc)

\* a paragraph "a <img> b" whose image, alt "diagram", names img/x.png, absent
\* from the source directory but present under the working directory, was
\* converted
C9_Witness ==
    /\ pc = "converted"
    /\ md_soup[1].tag = "p"
    /\ Len(md_soup[1].kids) = 3
    /\ "src" \in DOMAIN TheImage.attrs
    /\ TheImage.attrs.src = <<"img", "x.png">>
    /\ "alt" \in DOMAIN TheImage.attrs
    /\ TheImage.attrs.alt = <<"diagram">>
    /\ <<"img", "x.png">> \in DOMAIN disk
    /\ Len(docx.doc[1].runs) = 3
    /\ docx.doc[1].runs[2].text = <<"[Image not found: ", "diagram", "]">>

\* the locator is relative: no scheme and no leading "/"
IsRelative(src) == src # <<>> /\ ~IsRemote(src) /\ ~StartsWith(src, {"file:///"}) /\ ~IsAbs(src)

C10_ImageNeverRaises ==
    pc = "converted" =>
        /\ docx.raised = ""
        /\ \E i \in 1..Len(AllRuns(docx.doc)) :
              \/ AllRuns(docx.doc)[i].kind = "picture"
              \/ IsPlaceholder(AllRuns(docx.doc)[i])


-----------------------------------------------------------------------------
(* Lists.  Trees of list items: every kind of item content, lists nested in *)
(* items and in blockquotes down to MaxDepth levels.                        *)

MaxDepth == 2

Word(w) == Text(<<w>>)

Para(w) == Tag("p", <<Word(w)>>)

Li(kids) == Tag("li", kids)

Lst(list_type_tag, items) == Tag(list_type_tag, items)

\* the contents of an item without nested lists
LeafItemKids ==
    {<<>>,
     <<Text(<<"\n">>)>>,
     <<Word("a")>>,
     <<Word("a"), Tag("strong", <<Word("b")>>)>>,
     <<Tag("em", <<Word("a")>>)>>,
     <<Para("a")>>,
     <<Text(<<"\n">>), Para("a"), Text(<<"\n">>)>>,
     <<Word("a"), Para("b")>>,
     <<Para("a"), Word("b")>>,
     <<Tag("pre", <<Tag("code", <<Text(<<"x", "\n">>)>>)>>)>>,
     <<Tag("h2", <<Word("a")>>)>>,
     <<Word("a"), Tag("table", <<Tag("tr", <<Tag("td", <<Word("t")>>)>>)>>)>>}

RECURSIVE Items(_)
Items(n) ==
    IF n = 0 THEN {Li(kids) : kids \in LeafItemKids}
    ELSE Items(n - 1) \cup
         UNION {{Li(pre \o <<Lst(t, <<x>>)>>),
                 Li(pre \o <<Tag("blockquote", <<Text(<<"\n">>), Lst(t, <<x>>)>>)>>)}
                : pre \in {<<>>, <<Word("c")>>}, t \in {"ul", "ol"}, x \in Items(n - 1)}

\* the documents: a list at the top, a list followed by a paragraph, a list
\* in a blockquote; and blockquotes, one or two deep, around one block
ListSoups ==
    LET Quote(kid) == Tag("blockquote", <<Text(<<"\n">>), kid, Text(<<"\n">>)>>)
        QuoteKids == {Para("q"),
                      Tag("h2", <<Word("q")>>),
                      Tag("pre", <<Tag("code", <<Text(<<"x", "\n">>)>>)>>),
                      Tag("table", <<Tag("tr", <<Tag("td", <<Word("t")>>)>>)>>),
                      Tag("hr", <<>>)}
    IN  UNION {{<<Lst(t, <<x>>)>>,
                <<Lst(t, <<x, Li(<<Word("z")>>)>>), Para("after")>>,
                <<Quote(Lst(t, <<x>>))>>}
               : t \in {"ul", "ol"}, x \in Items(MaxDepth)}
        \cup {<<Quote(kid)>> : kid \in QuoteKids}
        \cup {<<Quote(Quote(kid))>> : kid \in QuoteKids}

InitList == ReadyToConvert(ListSoups, {SourceDirOnly})

SpecList == InitList /\ [][NextConvert]_vars

\* the node of the document at a path of child indexes
RECURSIVE NodeAt(_, _)
NodeAt(nodes, path) ==
    IF Len(path) = 1 THEN nodes[path[1]]
    ELSE NodeAt(nodes[path[1]].kids, Tail(path))

RECURSIVE PathsUnder(_, _)
PathsUnder(nodes, prefix) ==
    UNION {{Append(prefix, i)} \cup PathsUnder(nodes[i].kids, Append(prefix, i))
           : i \in 1..Len(nodes)}

\* the list items of the document: li children of a ul or ol
ListItemPaths ==
    {path \in PathsUnder(md_soup, <<>>) :
        /\ NodeAt(md_soup, path).tag = "li"
        /\ Len(path) > 1
        /\ NodeAt(md_soup, SubSeq(path, 1, Len(path) - 1)).tag \in {"ul", "ol"}}

\* nesting depth of a node: its list-item and blockquote ancestors
Depth(path) ==
    Cardinality({k \in 1..(Len(path) - 1) :
                    NodeAt(md_soup, SubSeq(path, 1, k)).tag \in {"li", "blockquote"}})

ListStyles == {"ListBullet", "ListNumber"}

\* the list-styled paragraphs an item produced
BulletParagraphs(path) ==
    {i \in 1..Len(docx.doc) : docx.doc[i].style \in ListStyles /\ docx.doc[i].origin = path}

\* C4: the bullet paragraph of a list item at nesting depth d has left indent
\* 1.27 cm x d and first-line indent -0.635 cm; the left indent is strictly
\* increasing in d.
C4_ListIndent ==
    pc = "converted" =>
        /\ \A path \in ListItemPaths : \A i \in BulletParagraphs(path) :
              /\ docx.doc[i].left_indent = <<1270 * Depth(path)>>
              /\ docx.doc[i].fmt.first_line_indent = <<-635>>
        /\ \A p1, p2 \in ListItemPaths : \A i \in BulletParagraphs(p1), j \in BulletParagraphs(p2) :
              Depth(p1) < Depth(p2) => docx.doc[i].left_indent[1] < docx.doc[j].left_indent[1]

\* a list in a blockquote holding a list in a blockquote in an item of it was
\* converted: the inner item, three levels deep, is indented 3.81 cm
C4_Witness ==
    /\ pc = "converted"
    /\ md_soup[1].tag = "blockquote"
    /\ \E path \in ListItemPaths : \E i \in BulletParagraphs(path) :
          /\ Depth(path) = 3
          /\ docx.doc[i].left_indent = <<3810>>

IsBlankItem(item) ==
    \A i \in 1..Len(item.kids) : ~IsTag(item.kids[i]) /\ Strip(item.kids[i].text) = <<>>

\* C5: every list item yields exactly one paragraph bearing the list style,
\* ListBullet in a ul and ListNumber in an ol, whatever its content; an
\* empty item yields an empty one; no other paragraph bears a list style.
C5_OneListParagraph ==
    pc = "converted" =>
        /\ docx.raised = ""
        /\ \A path \in ListItemPaths :
              /\ Cardinality(BulletParagraphs(path)) = 1
              /\ \A i \in BulletParagraphs(path) :
                    /\ docx.doc[i].kind = "paragraph"
                    /\ docx.doc[i].style =
                          IF NodeAt(md_soup, SubSeq(path, 1, Len(path) - 1)).tag = "ul"
                          THEN "ListBullet" ELSE "ListNumber"
                    /\ IsBlankItem(NodeAt(md_soup, path)) => docx.doc[i].runs = <<>>
        /\ Cardinality({i \in 1..Len(docx.doc) : docx.doc[i].style \in ListStyles})
              = Cardinality(ListItemPaths)

\* an ordered list nested in an item, whose only item is empty, was converted
C5_Witness ==
    /\ pc = "converted"
    /\ \E path \in ListItemPaths :
          /\ Len(path) = 4
          /\ NodeAt(md_soup, path).kids = <<>>
          /\ NodeAt(md_soup, SubSeq(path, 1, 3)).tag = "ol"
          /\ \E i \in BulletParagraphs(path) :
                docx.doc[i].style = "ListNumber" /\ docx.doc[i].runs = <<>>

\* the children of an item that are block-level: the tags that are none of
\* the inline tags
BlockKids(path) ==
    {i \in 1..Len(NodeAt(md_soup, path).kids) :
        /\ IsTag(NodeAt(md_soup, path).kids[i])
        /\ NodeAt(md_soup, path).kids[i].tag \notin InlineTagsOfItem}

\* the blocks made by the node at a path
BlocksOf(path) == {b \in 1..Len(docx.doc) : docx.doc[b].origin = path}

\* the texts of the direct text and inline children of an item, in order
RECURSIVE InlineTexts(_)
InlineTexts(kids) ==
    IF kids = <<>> THEN <<>>
    ELSE (IF ~IsTag(Head(kids))
          THEN (IF Strip(Head(kids).text) # <<>> THEN <<Head(kids).text>> ELSE <<>>)
          ELSE IF Head(kids).tag \in InlineTagsOfItem THEN <<GetText(Head(kids))>>
          ELSE <<>>)
         \o InlineTexts(Tail(kids))

\* C16: for a list item at depth d every block-level child is dispatched at
\* depth d+1 and makes blocks of its own: a paragraph or heading child one
\* block with its text and left indent 1.27 cm x (d+1), a code block one
\* block as wide as depth d+1 leaves, a table one table, a nested list its
\* items at depth d+1, a blockquote nothing of its own; the runs of the
\* bullet paragraph are those of the text and inline children only.
C16_BlockChildrenOwnBlocks ==
    pc = "converted" =>
        \A path \in ListItemPaths :
            LET item == NodeAt(md_soup, path)
                d == Depth(path)
            IN  /\ \A i \in BlockKids(path) :
                      LET child == item.kids[i]
                          made == BlocksOf(Append(path, i))
                      IN  /\ child.tag \in {"p"} \cup HeadingTags =>
                                /\ Cardinality(made) = 1
                                /\ \A b \in made :
                                      /\ docx.doc[b].style \notin ListStyles
                                      /\ docx.doc[b].left_indent = <<1270 * (d + 1)>>
                                      /\ [j \in 1..Len(docx.doc[b].runs) |-> docx.doc[b].runs[j].text]
                                            = <<GetText(child)>>
                          /\ child.tag = "pre" =>
                                /\ Cardinality(made) = 1
                                /\ \A b \in made :
                                      /\ docx.doc[b].kind = "code"
                                      /\ docx.doc[b].width = IF 16000 - 1270 * (d + 1) > 5000
                                                             THEN 16000 - 1270 * (d + 1) ELSE 5000
                          /\ child.tag = "table" =>
                                /\ Cardinality(made) = 1
                                /\ \A b \in made : docx.doc[b].kind = "table"
                          /\ child.tag \in {"ul", "ol"} =>
                                \A k \in 1..Len(child.kids) :
                                    \E b \in BlocksOf(Append(Append(path, i), k)) :
                                        docx.doc[b].left_indent = <<1270 * (d + 1)>>
                          /\ child.tag = "blockquote" => made = {}
                /\ \A b \in BulletParagraphs(path) :
                      [j \in 1..Len(docx.doc[b].runs) |-> docx.doc[b].runs[j].text]
                            = InlineTexts(item.kids)

\* an item at depth 1 with a text and a paragraph was converted: the bullet
\* paragraph holds the text at 1.27 cm, the paragraph is a block at 2.54 cm
C16_Witness ==
    /\ pc = "converted"
    /\ \E path \in ListItemPaths :
          /\ Depth(path) = 1
          /\ NodeAt(md_soup, path).kids = <<Word("a"), Para("b")>>
          /\ \E b \in BulletParagraphs(path) :
                /\ Len(docx.doc[b].runs) = 1
                /\ docx.doc[b].left_indent = <<1270>>
          /\ \E b \in BlocksOf(Append(path, 2)) :
                /\ docx.doc[b].left_indent = <<2540>>
                /\ docx.doc[b].runs[1].text = <<"b">>

\* C24: the nesting depth is passed by value: the left indent of every
\* block is given by the list-item and blockquote ancestors of its node
\* alone (1.27 cm per ancestor for a paragraph or heading, 1.27 cm per
\* ancestor of the item for its bullet paragraph, none for code blocks,
\* tables and rules, whose width for a code block is given by the ancestors
\* too), so an item or paragraph that follows a nested list or blockquote
\* is laid out at its own depth.
C24_DepthByValue ==
    pc = "converted" =>
        \A b \in 1..Len(docx.doc) :
            LET blk == docx.doc[b]
                d == Depth(blk.origin)
            IN  /\ blk.style \in ListStyles => blk.left_indent = <<1270 * d>>
                /\ (blk.kind \in {"paragraph", "heading"} /\ blk.style \notin ListStyles) =>
                      blk.left_indent = IF d > 0 THEN <<1270 * d>> ELSE <<>>
                /\ blk.kind = "code" =>
                      /\ blk.left_indent = <<>>
                      /\ blk.width = IF 16000 - 1270 * d > 5000 THEN 16000 - 1270 * d ELSE 5000
                /\ blk.kind \in {"table", "rule"} => blk.left_indent = <<>>

\* a list whose first item holds a list in a blockquote and whose second
\* item follows it, then a paragraph: the second item is at depth 0 and the
\* paragraph has no indent, after an item at depth 2 was laid out
C24_Witness ==
    /\ pc = "converted"
    /\ Len(md_soup) = 2
    /\ Len(md_soup[1].kids) = 2
    /\ \E path \in ListItemPaths : \E i \in BulletParagraphs(path) :
          Depth(path) = 2 /\ docx.doc[i].left_indent = <<2540>>
    /\ \E i \in BulletParagraphs(<<1, 2>>) :
          /\ docx.doc[i].left_indent = <<0>>
          /\ docx.doc[i].runs[1].text = <<"z">>
    /\ docx.doc[Len(docx.doc)].origin = <<2>>
    /\ docx.doc[Len(docx.doc)].left_indent = <<>>

\* the blocks made by the nodes at and below a path
BlocksUnder(path) ==
    {b \in 1..Len(docx.doc) :
        /\ Len(docx.doc[b].origin) >= Len(path)
        /\ SubSeq(docx.doc[b].origin, 1, Len(path)) = path}

\* C25: the content of a list item is emitted in the order of its nodes:
\* the run of a text or inline child that follows a block-level child is in
\* a block that comes after every block of that child.
C25_ItemOrder ==
    pc = "converted" =>
        \A path \in ListItemPaths :
            LET kids == NodeAt(md_soup, path).kids
            IN  \A i \in BlockKids(path) : \A j \in (i + 1)..Len(kids) :
                    InlineTexts(<<kids[j]>>) # <<>> =>
                        \A b \in BlocksUnder(path) :
                            (\E r \in 1..Len(docx.doc[b].runs) :
                                docx.doc[b].runs[r].text = InlineTexts(<<kids[j]>>)[1])
                            => \A c \in BlocksUnder(Append(path, i)) : c < b

\* the blockquotes of the document
QuotePaths == {path \in PathsUnder(md_soup, <<>>) : NodeAt(md_soup, path).tag = "blockquote"}

\* C17: a blockquote at depth d makes no block of its own, and every block
\* made from its children (paragraph, heading, list item, code block,
\* table, rule) has a left indent of 1.27 cm x (d+1) or more.
C17_QuoteIndentsBlocks ==
    pc = "converted" =>
        \A path \in QuotePaths :
            /\ BlocksOf(path) = {}
            /\ \A b \in 1..Len(docx.doc) :
                  (/\ Len(docx.doc[b].origin) > Len(path)
                   /\ SubSeq(docx.doc[b].origin, 1, Len(path)) = path)
                  => /\ docx.doc[b].left_indent # <<>>
                     /\ docx.doc[b].left_indent[1] >= 1270 * (Depth(path) + 1)


-----------------------------------------------------------------------------
(* Inline content.  One paragraph, heading or list item whose content is an *)
(* inline tree: text nodes, an image, emphasis tags, links and spans nested *)
(* down to MaxInline levels, alone, before a text, or between two emphasis  *)
(* elements.                                                                *)

MaxInline == 2

EmphasisTags == {"strong", "b", "em", "i"}

\* the img element of the inline trees
Img == TagA("img", [src |-> <<"img", "x.png">>, alt |-> <<"pic">>], <<>>)

RECURSIVE Inlines(_)
Inlines(n) ==
    IF n = 0
    THEN {Word("a"), Text(<<" ">>), Text(<<"\n">>), Text(<<" ", " ">>), Img}
    ELSE Inlines(0) \cup
         {Tag(t, <<x>>) : t \in EmphasisTags \cup {"a", "span"}, x \in Inlines(n - 1)}

InlineSoups ==
    UNION {{<<Tag("p", kids)>>, <<Tag("h1", kids)>>, <<Lst("ul", <<Li(kids)>>)>>}
           : kids \in UNION {{<<x>>,
                              <<x, Word("z")>>,
                              <<Tag("strong", <<Word("w")>>), x, Tag("em", <<Word("z")>>)>>}
                             : x \in Inlines(MaxInline)}}

SpecInline ==
    /\ ReadyToConvert(InlineSoups,
                      {SourceDirOnly,
                       Update(SourceDirOnly, [p \in {MdDir \o <<"img", "x.png">>} |-> "image"])})
    /\ [][NextConvert]_vars

\* the path of the block that takes the inline content
BlockPath == IF md_soup[1].tag = "ul" THEN <<1, 1>> ELSE <<1>>

\* the style the block hands to its inline content
BlockStyle == IF md_soup[1].tag = "h1" THEN styles_config.H1 ELSE styles_config.paragraph

\* the tags between the block and the node at a path below it
InlineAncestors(path) ==
    {NodeAt(md_soup, SubSeq(path, 1, k)).tag : k \in (Len(BlockPath) + 1)..(Len(path) - 1)}

\* the nodes with a tag below the block, all of whose ancestors in the block
\* have one of the tags
NodesWithin(tag, ancestor_tags) ==
    {path \in PathsUnder(NodeAt(md_soup, BlockPath).kids, BlockPath) :
        /\ NodeAt(md_soup, path).tag = tag
        /\ InlineAncestors(path) \subseteq ancestor_tags}

\* the runs of the block: a list item's bullet paragraph is its first block
InlineRuns == IF docx.doc = <<>> THEN <<>> ELSE docx.doc[1].runs

\* C18: the run of a plain text node whose ancestors inside its block are
\* emphasis tags only has bold = (the block's style is bold or an ancestor
\* is strong/b) and italic = (the block's style is italic or an ancestor is
\* em/i), and is otherwise the run a text directly in the block gets;
\* either order of nesting gives both flags, and a text after the emphasis
\* element does not get its flag.
C18_EmphasisFlags ==
    pc = "converted" =>
        \A path \in NodesWithin("#text", EmphasisTags) :
            LET text == NodeAt(md_soup, path).text
                plain == ApplyFontStyle(text, BlockStyle, BlockStyle.font_size.n, TRUE)
                made == {j \in 1..Len(InlineRuns) : InlineRuns[j].text = text}
            IN  Strip(text) # <<>> =>
                    /\ Cardinality(made) = 1
                    /\ \A j \in made :
                          InlineRuns[j] =
                              [plain EXCEPT
                                 !.bold = plain.bold \/ InlineAncestors(path) \cap {"strong", "b"} # {},
                                 !.italic = plain.italic \/ InlineAncestors(path) \cap {"em", "i"} # {}]

\* a paragraph with a text in <em> in <strong>, followed by a text, was
\* converted: the first run is bold and italic, the second neither
C18_Witness ==
    /\ pc = "converted"
    /\ md_soup = <<Tag("p", <<Tag("strong", <<Tag("em", <<Word("a")>>)>>), Word("z")>>)>>
    /\ Len(InlineRuns) = 2
    /\ InlineRuns[1].bold /\ InlineRuns[1].italic
    /\ ~InlineRuns[2].bold /\ ~InlineRuns[2].italic

\* C19: in a paragraph, a heading and the bullet line of a list item a text
\* node yields one run if it holds a non-whitespace character or is exactly
\* one space, and none otherwise: for content of texts and emphasis only,
\* the block has as many runs as it has such text nodes.
C19_TextNodeRuns ==
    (/\ pc = "converted"
     /\ NodesWithin("img", EmphasisTags \cup {"a", "span"}) = {}
     /\ NodesWithin("#text", EmphasisTags \cup {"a", "span"}) = NodesWithin("#text", EmphasisTags)
     /\ NodesWithin("a", EmphasisTags) = {} /\ NodesWithin("span", EmphasisTags) = {}) =>
        Len(InlineRuns)
            = Cardinality({path \in NodesWithin("#text", EmphasisTags) :
                              \/ Strip(NodeAt(md_soup, path).text) # <<>>
                              \/ NodeAt(md_soup, path).text = <<" ">>})

\* C20: every img node in the inline content of a block, directly in it,
\* inside emphasis or inside a link, yields a picture or a placeholder run:
\* where no other tag is around, the block has as many such runs as it has
\* img nodes.
C20_EveryImageYieldsRun ==
    (pc = "converted" /\ NodesWithin("span", EmphasisTags \cup {"a", "span"}) = {}) =>
        Cardinality({j \in 1..Len(InlineRuns) :
                        InlineRuns[j].kind = "picture" \/ IsPlaceholder(InlineRuns[j])})
            = Cardinality(NodesWithin("img", EmphasisTags \cup {"a"}))


\* the text of a block: the texts of its runs, joined
BlockText(b) == ConcatAll([j \in 1..Len(docx.doc[b].runs) |-> docx.doc[b].runs[j].text])

\* C26: no content is lost silently: every text node of the tag tree with a
\* non-whitespace character appears in the text of some emitted block, also
\* inside an element whose tag is none of the recognized kinds, such as a
\* span that is a direct child of a list item.
C26_NoTextLost ==
    pc = "converted" =>
        \A path \in PathsUnder(md_soup, <<>>) :
            (~IsTag(NodeAt(md_soup, path)) /\ Strip(NodeAt(md_soup, path).text) # <<>>) =>
                \E b \in 1..Len(docx.doc) : Contains(BlockText(b), NodeAt(md_soup, path).text)


-----------------------------------------------------------------------------
(* The GUI (src/main.py): MarkdownToWordGUI with one StyleConfigWidget per  *)
(* style name.  A widget is [style_data, inputs]: its copy of the entry and *)
(* the values its input controls show.                                      *)

MaxOps == 3

\* QSpinBox / QDoubleSpinBox.setValue within setRange(lo, hi)
Clamp(v, lo, hi) == IF v < lo THEN lo ELSE IF v > hi THEN hi ELSE v

\* the tabs with spacing inputs: style_name.startswith('H') or 'paragraph'
HasSpacingInputs(style_name) == style_name \in HeadingKeys \cup {"paragraph"}

\* the input controls init_ui creates for a style name
InputFields(style_name) ==
    {"font_name", "font_size", "bold", "italic"}
    \cup (IF style_name = "paragraph" THEN {"line_spacing", "first_line_indent_cm"} ELSE {})
    \cup (IF style_name = "code_block" THEN {"line_spacing"} ELSE {})
    \cup (IF style_name = "inline_code" THEN {"font_size_ratio"} ELSE {})
    \cup (IF HasSpacingInputs(style_name) THEN {"space_before_pt", "space_after_pt"} ELSE {})

\* StyleConfigWidget(style_name, style_data): __init__ and init_ui
StyleConfigWidget(style_name, style_data) ==
    [style_data |-> style_data,
     inputs |->
        [f \in InputFields(style_name) |->
            CASE f = "font_name" -> Get(style_data, "font_name", Str(""))
              [] f = "font_size" -> Num(Clamp(Get(style_data, "font_size", Num(12)).n, 1, 72))
              [] f = "bold" -> Get(style_data, "bold", Bool(FALSE))
              [] f = "italic" -> Get(style_data, "italic", Bool(FALSE))
              [] f = "line_spacing" ->
                    Num(Clamp(Get(style_data, "line_spacing",
                                  IF style_name = "paragraph" THEN Num(150) ELSE Num(100)).n,
                              50, 500))
              [] f = "first_line_indent_cm" ->
                    Num(Clamp(Get(style_data, "first_line_indent_cm", Num(0)).n, 0, 1000))
              [] f = "font_size_ratio" ->
                    Num(Clamp(Get(style_data, "font_size_ratio", Num(90)).n, 10, 200))
              [] f = "space_before_pt" ->
                    Num(Clamp(Get(style_data, "space_before_pt", Num(0)).n, 0, 100))
              [] f = "space_after_pt" ->
                    Num(Clamp(Get(style_data, "space_after_pt", Num(6)).n, 0, 100))]]

\* StyleConfigWidget.get_current_style_data
GetCurrentStyleData(style_name, widget) ==
    LET fields == InputFields(style_name) \cup {"color_rgb"}
                  \cup (IF "background_color" \in DOMAIN widget.style_data
                        THEN {"background_color"} ELSE {})
    IN  [f \in fields |->
            IF f = "color_rgb" THEN Get(widget.style_data, "color_rgb", Tuple(<<0, 0, 0>>))
            ELSE IF f = "background_color" THEN widget.style_data.background_color
            ELSE widget.inputs[f]]

\* the loop that fills style_widgets from current_styles (init_ui, _reset_styles, _import_styles)
StyleWidgets(styles) == [k \in DOMAIN styles |-> StyleConfigWidget(k, styles[k])]

\* _update_current_styles_from_gui
UpdateCurrentStylesFromGui(styles, widgets) ==
    [k \in (DOMAIN styles) \cup (DOMAIN widgets) |->
        IF k \in DOMAIN widgets THEN GetCurrentStyleData(k, widgets[k]) ELSE styles[k]]

\* what the user can type or tick in a tab
GuiInputs ==
    {[style_name |-> "paragraph",   field |-> "font_size",       value |-> Num(14)],
     [style_name |-> "paragraph",   field |-> "font_name",       value |-> Str("Arial")],
     [style_name |-> "inline_code", field |-> "font_size_ratio", value |-> Num(80)],
     [style_name |-> "inline_code", field |-> "font_size",       value |-> Num(9)],
     [style_name |-> "H1",          field |-> "bold",            value |-> Bool(FALSE)],
     [style_name |-> "code_block",  field |-> "line_spacing",    value |-> Num(120)]}

\* the colours the user can pick in the colour dialog
GuiColors == {<<255, 0, 0>>}

\* the contents styles_config.json can have when the application starts
GuiStyleFiles ==
    {AbsentFile,
     MalformedFile,
     SavedFile(DEFAULT_STYLES_CONFIG),
     ObjectFile([k \in {"paragraph"} |-> JDict([font_size |-> Num(11)])]),
     NotObjectFile,
     ObjectFile([k \in {"H2", "inline_code"} |->
                    IF k = "H2" THEN JOther ELSE JDict([font_size |-> Num(10)])]),
     ObjectFile([k \in {"H1", "table_header"} |->
                    IF k = "H1" THEN JDict([alignment |-> Str("CENTER")])
                    ELSE JDict(TableHeaderEntry)])}

\* the preset files the user can import
PresetFiles ==
    {ObjectFile([k \in {"inline_code"} |-> JDict([font_size_ratio |-> Num(75)])]),
     ObjectFile([k \in {"H2"} |-> JDict([color_rgb |-> List(<<1, 2, 3>>)])]),
     MalformedFile}

\* the document chosen in the GUI: a heading and a paragraph with inline
\* code, and a code block
GuiSoup ==
    <<Tag("h1", <<Text(<<"Title", " ">>), Tag("code", <<Text(<<"snippet">>)>>)>>),
      Tag("p", <<Text(<<"see", " ">>), Tag("code", <<Text(<<"snippet">>)>>)>>),
      Tag("pre", <<Tag("code", <<Text(<<"x", "\n">>)>>)>>)>>

\* MarkdownToWordGUI.__init__: converter.load_styles(), current_styles, init_ui;
\* the source and target paths are chosen
Init ==
    /\ style_file \in GuiStyleFiles
    /\ styles_config = LoadStyles(style_file)
    /\ current_styles = CopySheet(styles_config)
    /\ style_widgets = StyleWidgets(current_styles)
    /\ saved_sheet = EmptyDict
    /\ loaded_file = style_file
    /\ objects = ClassObjects
    /\ md_soup = GuiSoup
    /\ disk = SourceDirOnly
    /\ docx = NoDocx
    /\ ops = 0
    /\ pc = "started"

\* one more operation of the user, at most MaxOps in a session
Step == ops < MaxOps /\ ops' = ops + 1

\* the user changes the value of an input control of a tab
EditInput ==
    /\ Step
    /\ \E e \in GuiInputs :
        /\ e.style_name \in DOMAIN style_widgets
        /\ e.field \in DOMAIN style_widgets[e.style_name].inputs
        /\ style_widgets' = [style_widgets EXCEPT ![e.style_name].inputs[e.field] = e.value]
    /\ pc' = "edited"
    /\ UNCHANGED <<styles_config, style_file, saved_sheet, loaded_file, objects, md_soup, disk, docx, current_styles>>

\* StyleConfigWidget._pick_color with a valid colour chosen
PickColor ==
    /\ Step
    /\ \E k \in {"H1", "inline_code"} \cap DOMAIN style_widgets, color \in GuiColors :
        style_widgets' =
            [style_widgets EXCEPT ![k].style_data = SetItem(@, "color_rgb", Tuple(color))]
    /\ pc' = "edited"
    /\ UNCHANGED <<styles_config, style_file, saved_sheet, loaded_file, objects, md_soup, disk, docx, current_styles>>

\* MarkdownToWordGUI._save_styles; save_styles swallows a failed write
SaveStyles ==
    LET updated == UpdateCurrentStylesFromGui(current_styles, style_widgets)
    IN  /\ Step
        /\ current_styles' = updated
        /\ styles_config' = SetStyles(CopySheet(updated))
        /\ \E written \in BOOLEAN :
              IF written
              THEN style_file' = SavedFile(styles_config') /\ saved_sheet' = styles_config'
              ELSE UNCHANGED <<style_file, saved_sheet>>
        /\ pc' = "styles_saved"
        /\ UNCHANGED <<loaded_file, objects, md_soup, disk, docx, style_widgets>>

\* a variant of the preview that renders with self.converter after set_styles
ConverterAfterPreviewShared(self_styles, current) == SetStyles(CopySheet(current))

\* _preview_markdown, lines 645-650: the HTML is made by temp_converter_for_html,
\* constructed from current_styles.copy() and dropped at the return;
\* self.converter is not called: its styles afterwards
ConverterAfterPreview(self_styles, current) == self_styles

\* MarkdownToWordGUI._preview_markdown on an existing source file:
\* word_preview.set_content(html, current_styles.copy(), base_url)
PreviewMarkdown ==
    /\ Step
    /\ current_styles' = UpdateCurrentStylesFromGui(current_styles, style_widgets)
    /\ styles_config' = ConverterAfterPreview(styles_config, current_styles')
    /\ pc' = "previewed"
    /\ UNCHANGED <<style_file, saved_sheet, loaded_file, objects, md_soup, disk, docx, style_widgets>>

\* MarkdownToWordGUI._reset_styles answered Yes; it ends with _preview_markdown()
ResetStyles ==
    LET defaults == CopySheet(ConstructDefault)
        widgets == StyleWidgets(defaults)
    IN  /\ Step
        /\ style_widgets' = widgets
        /\ current_styles' = UpdateCurrentStylesFromGui(defaults, widgets)
        /\ styles_config' = ConverterAfterPreview(styles_config, current_styles')
        /\ pc' = "reset"
        /\ UNCHANGED <<style_file, saved_sheet, loaded_file, objects, md_soup, disk, docx>>

\* MarkdownToWordGUI._import_styles of a chosen preset file; it ends with
\* _preview_markdown(); a file that is not a JSON object leaves all as it was
ImportStyles ==
    /\ Step
    /\ \E preset \in PresetFiles :
        IF preset.state = "object"
        THEN LET imported == EnsureRgbTuples(MergeLoaded(preset.obj))
                 widgets == StyleWidgets(imported)
             IN  /\ style_widgets' = widgets
                 /\ current_styles' = UpdateCurrentStylesFromGui(imported, widgets)
                 /\ styles_config' = ConverterAfterPreview(styles_config, current_styles')
                 /\ pc' = "imported"
        ELSE /\ pc' = "import_failed"
             /\ UNCHANGED <<style_widgets, current_styles, styles_config>>
    /\ UNCHANGED <<style_file, saved_sheet, loaded_file, objects, md_soup, disk, docx>>

\* MarkdownToWordGUI._export_styles to a preset file of its own
ExportStyles ==
    /\ Step
    /\ current_styles' = UpdateCurrentStylesFromGui(current_styles, style_widgets)
    /\ pc' = "exported"
    /\ UNCHANGED <<styles_config, style_file, saved_sheet, loaded_file, objects, md_soup, disk, docx, style_widgets>>

\* MarkdownToWordGUI._convert_markdown with both paths valid
ConvertMarkdown ==
    LET updated == UpdateCurrentStylesFromGui(current_styles, style_widgets)
    IN  /\ Step
        /\ current_styles' = updated
        /\ styles_config' = SetStyles(CopySheet(updated))
        /\ docx' = MarkdownToDocx(styles_config', md_soup, MdPath, disk)
        /\ pc' = "converted"
        /\ UNCHANGED <<style_file, saved_sheet, loaded_file, objects, md_soup, disk, style_widgets>>

Next ==
    \/ EditInput
    \/ PickColor
    \/ SaveStyles
    \/ PreviewMarkdown
    \/ ResetStyles
    \/ ImportStyles
    \/ ExportStyles
    \/ ConvertMarkdown

Spec == Init /\ [][Next]_vars

\* C29: in the GUI the styles of the converter change only on save-styles and
\* on convert, which set them from the current GUI styles; editing widgets,
\* previewing, importing, resetting and exporting leave them as they were.
C29_ConverterStylesFrame ==
    [][/\ styles_config' # styles_config => pc' \in {"styles_saved", "converted"}
       /\ pc' \in {"styles_saved", "converted"} => styles_config' = SetStyles(current_styles')
      ]_vars

\* a preview, a reset or an import has run with GUI styles that differ from
\* the styles of the converter
C29_Witness ==
    /\ pc \in {"previewed", "reset", "imported"}
    /\ SetStyles(current_styles) # styles_config

\* C30: the success message of save-styles is shown only when the style file
\* was written: whenever _save_styles has ended with the message, the style
\* file holds the styles of the converter.
C30_SuccessOnlyWhenWritten ==
    pc = "styles_saved" => style_file = SavedFile(styles_config)

\* C2: at every call of markdown_to_docx and of set_content the sheet handed
\* over has every built-in style key, each with every field of its default
\* entry.  markdown_to_docx reads styles_config; set_content is given
\* current_styles at the end of a preview, a reset and an import.
C2_HandedFullyResolved ==
    /\ pc = "converted" => FullyResolved(styles_config)
    /\ pc \in {"previewed", "reset", "imported"} => FullyResolved(current_styles)

\* the runs made from the inline code of the block of a top-level node
InlineCodeRuns(i) ==
    {r \in UNION {{docx.doc[b].runs[j] : j \in 1..Len(docx.doc[b].runs)}
                  : b \in {x \in 1..Len(docx.doc) : docx.doc[x].origin = <<i>>}}
        : r.text = <<"snippet">>}

\* C3: the size of every inline code run is font_size_ratio of the
\* inline_code entry times the font size of the style of its block, here the
\* H1 heading and the paragraph (hundredths of a point: 12 x 0.9 is 1080).
C3_InlineCodeSize ==
    pc = "converted" =>
        \A i \in {1, 2} : \A r \in InlineCodeRuns(i) :
            r.size = styles_config.inline_code.font_size_ratio.n
                     * styles_config[IF i = 1 THEN "H1" ELSE "paragraph"].font_size.n

\* 4/3 of an optional length in points, in 1/300 of a pixel
PxOfPt(optional_pt) == [i \in 1..Len(optional_pt) |-> optional_pt[i] * 400]

\* C23: for the sheet handed to the preview, the size the rule set gives
\* the headings, the paragraph and the code block is 4/3 of the point size
\* the exporter gives their runs, and the size of inline code is 4/3 of the
\* size the exporter gives inline code in a paragraph; the margins of the
\* headings and the paragraph are 4/3 of the exporter's spacing; the text
\* indent of the paragraph is 96/2.54 pixels per centimeter within 1/100000.
C23_PreviewSizes ==
    pc = "previewed" =>
        LET paragraph == current_styles.paragraph
            indent == PreviewRules(current_styles, "paragraph").text_indent
        IN  /\ \A k \in HeadingKeys \cup {"paragraph", "code_block"} :
                  PreviewRules(current_styles, k).font_size
                        = <<4 * FontSize(current_styles[k], 0, FALSE)>>
            /\ PreviewRules(current_styles, "inline_code").font_size
                  = <<4 * FontSize(current_styles.inline_code,
                                   Get(paragraph, "font_size", Num(12)).n, TRUE)>>
            /\ \A k \in HeadingKeys \cup {"paragraph"} :
                  /\ PreviewRules(current_styles, k).margin_top
                        = PxOfPt(ApplyParagraphFormat(current_styles[k]).space_before)
                  /\ PreviewRules(current_styles, k).margin_bottom
                        = PxOfPt(ApplyParagraphFormat(current_styles[k]).space_after)
            /\ "first_line_indent_cm" \in DOMAIN paragraph =>
                  /\ indent # <<>>
                  /\ indent[1] * 254 <= paragraph.first_line_indent_cm.n * 96001000
                  /\ indent[1] * 254 >= paragraph.first_line_indent_cm.n * 95999000


-----------------------------------------------------------------------------
(* A client that holds a converter whose styles_config was given to the     *)
(* constructor, finds a style file of any content on disk, calls            *)
(* load_styles(path) and then either save_styles(path) or markdown_to_docx. *)

\* a JSON object with the one key k
OneKey(k, v) == [x \in {k} |-> v]

\* the contents of the style file when load_styles is called: no file, no
\* JSON, no object, and objects with one or two keys; FileEntries(k) are the
\* values under a built-in key, UnknownEntries those under the key "version"
LoadFiles ==
    LET FileEntries(k) ==
            {JOther,
             JDict(EmptyDict),
             JDict([font_size |-> Num(14)]),
             JDict([color_rgb |-> List(<<1, 2, 3>>)]),
             JDict([color_rgb |-> List(<<255, 0>>)]),
             JDict([color_rgb |-> Str("red")]),
             JDict([note |-> Str("x")]),
             JDict(SerializableEntry(SetItem(DEFAULT_STYLES_CONFIG[k], "bold", Bool(TRUE))))}
        UnknownEntries ==
            {JOther, JDict(EmptyDict), JDict(SerializableEntry(TableHeaderEntry))}
        Other(k) == IF k = "paragraph" THEN "H1" ELSE "paragraph"
    IN  {AbsentFile, MalformedFile, NotObjectFile, ObjectFile(EmptyDict)}
        \cup UNION {{ObjectFile(OneKey(k, e)) : e \in FileEntries(k)} : k \in StyleKeys}
        \cup UNION {{ObjectFile(Update(OneKey(k, e),
                                       OneKey(Other(k), JDict([font_name |-> Str("Arial")]))))
                        : e \in FileEntries(k)} : k \in StyleKeys}
        \cup {ObjectFile(OneKey("version", u)) : u \in UnknownEntries}
        \cup {ObjectFile(Update(OneKey("version", u),
                                OneKey("paragraph", JDict([font_size |-> Num(14)]))))
                : u \in UnknownEntries}

\* a file system that holds the source directory without the source file
NoSourceFile == [p \in {MdDir} |-> "dir"]

NextLoad ==
    \/ LoadStylesCall
    \/ SaveStylesCall
    \/ ConvertCall

\* MarkdownToWordConverter(styles_config) next to a style file of any content
InitLoad ==
    /\ styles_config \in {Construct(DEFAULT_STYLES_CONFIG),
                          Construct(DelItem(DEFAULT_STYLES_CONFIG, "H1")),
                          Construct(SetItem(DEFAULT_STYLES_CONFIG, "table_header", TableHeaderEntry))}
    /\ style_file \in LoadFiles
    /\ saved_sheet = EmptyDict
    /\ loaded_file = AbsentFile
    /\ md_soup = GuiSoup
    /\ disk \in {SourceDirOnly, NoSourceFile}
    /\ docx = NoDocx
    /\ pc = "file_given"
    /\ NoGui

SpecLoad == InitLoad /\ [][NextLoad]_vars

\* C11: load_styles always returns; after it has run on a file that is
\* absent, is no JSON or has no JSON object at its top level, styles_config
\* equals the built-in defaults whatever it held before, and a conversion of
\* an existing source with this converter writes the document.
C11_LoadFallsBack ==
    /\ (pc \in {"file_loaded", "file_saved", "file_save_failed"} /\ loaded_file.state # "object")
            => styles_config = ConstructDefault
    /\ (pc = "converted" /\ loaded_file.state # "object" /\ MdPath \in DOMAIN disk)
            => docx.saved /\ docx.raised = ""

C11_Witness ==
    /\ pc = "converted" /\ loaded_file = NotObjectFile /\ MdPath \in DOMAIN disk
    /\ docx.saved /\ styles_config = ConstructDefault

\* the fields of the record a loaded file holds under key k, none when the
\* key is missing or its value is no mapping
Provided(file, k) ==
    IF k \in DOMAIN file.obj /\ file.obj[k].isdict THEN file.obj[k].d ELSE EmptyDict

\* C12: after load_styles of a file F that parses to a JSON object, for
\* every built-in key k and field f the resolved value is F[k][f] when F[k]
\* is a mapping that provides f (an array read as the tuple of its items)
\* and the default value otherwise; a key whose record is no mapping gets
\* exactly its default entry while the other keys of the file are merged.
C12_MergeWithDefaults ==
    (pc = "file_loaded" /\ loaded_file.state = "object") =>
        \A k \in StyleKeys :
            /\ k \in DOMAIN styles_config
            /\ DOMAIN styles_config[k]
                    = DOMAIN DEFAULT_STYLES_CONFIG[k] \cup DOMAIN Provided(loaded_file, k)
            /\ \A f \in DOMAIN styles_config[k] :
                    IF f \in DOMAIN Provided(loaded_file, k)
                    THEN JsonValue(styles_config[k][f]) = Provided(loaded_file, k)[f]
                    ELSE styles_config[k][f] = DEFAULT_STYLES_CONFIG[k][f]
            /\ (k \in DOMAIN loaded_file.obj /\ ~loaded_file.obj[k].isdict)
                    => styles_config[k] = DEFAULT_STYLES_CONFIG[k]

\* a file with a record that is no mapping under H2 and a partial record
\* under paragraph has been loaded: H2 is the default entry, paragraph has
\* the font of the file and the default size
C12_Witness ==
    /\ pc = "file_loaded"
    /\ loaded_file = ObjectFile(Update(OneKey("H2", JOther),
                                       OneKey("paragraph", JDict([font_name |-> Str("Arial")]))))
    /\ styles_config.H2 = DEFAULT_STYLES_CONFIG.H2
    /\ styles_config.paragraph.font_name = Str("Arial")
    /\ styles_config.paragraph.font_size = DEFAULT_STYLES_CONFIG.paragraph.font_size

\* C13: a malformed entry of the loaded style file (a color_rgb that is no
\* triple of integers under a heading or paragraph key) never discards a
\* valid document: markdown_to_docx of an existing source completes and
\* writes the output.
C13_MalformedEntryTolerated ==
    (pc = "converted" /\ MdPath \in DOMAIN disk) => docx.saved /\ docx.raised = ""

\* C14: every top-level key of the loaded style file that is no built-in
\* style key is present with the same value in the file written by the
\* save_styles that follows, whatever the shape of its value.
C14_UnknownKeysKept ==
    (pc = "file_saved" /\ loaded_file.state = "object") =>
        \A k \in DOMAIN loaded_file.obj \ StyleKeys :
            k \in DOMAIN style_file.obj /\ style_file.obj[k] = loaded_file.obj[k]

\* C15: when the source path does not exist, markdown_to_docx raises before
\* any output: doc.save does not run and no block has been built.
C15_MissingSourceAborts ==
    (pc = "converted" /\ MdPath \notin DOMAIN disk) =>
        docx.raised = "FileNotFoundError" /\ ~docx.saved /\ docx.doc = <<>>

\* a conversion was called without the source file, with styles that would
\* have converted an existing source
C15_Witness ==
    /\ pc = "converted" /\ disk = NoSourceFile /\ ~docx.saved
    /\ docx.raised = "FileNotFoundError"
    /\ HeadingStylesRaise(styles_config) = ""

-----------------------------------------------------------------------------
(* The defaults of the class, under every call of the style interface by a  *)
(* caller that keeps the mappings it passes and receives and assigns into   *)
(* them.  styles_config is the content of the mapping of the converter.     *)

\* what the caller assigns into the entries it holds: <<key, field, value>>
CallerAssignments ==
    {<<"paragraph", "color_rgb", List(<<1, 2, 3>>)>>, <<"H1", "font_size", Num(99)>>}

\* lines 67-71 on the mapping of the converter
EnsureRgbTuplesInPlace(objs) ==
    AssignVia(objs, "converter", DOMAIN objs.refs["converter"], EnsureRgbTuple)

\* MarkdownToWordConverter() and MarkdownToWordConverter(styles_config) with
\* the mapping of the caller
NewConverter ==
    \E src \in {"class", "caller"} :
        /\ objects' = EnsureRgbTuplesInPlace(CopyEntries(objects, "converter", objects.refs[src]))
        /\ styles_config' = Sheet(objects', "converter")
        /\ pc' = IF src = "class" THEN "constructed_default" ELSE "constructed"
        /\ UNCHANGED <<style_file, saved_sheet, loaded_file, md_soup, disk, docx, gui>>

\* load_styles(): base_styles is made of copies of the default entries, the
\* entries of the file are assigned into these copies, lines 585-594
LoadStylesObjects ==
    LET base   == CopyEntries(objects, "converter", objects.refs["class"])
        loaded == style_file.obj
        dicts  == {k \in DOMAIN loaded : loaded[k].isdict}
        merged ==
            [heap |-> Update(
                        [id \in DOMAIN base.heap |->
                            IF \E k \in dicts \cap StyleKeys : base.refs["converter"][k] = id
                            THEN Update(base.heap[id],
                                        loaded[CHOOSE k \in dicts \cap StyleKeys :
                                                   base.refs["converter"][k] = id].d)
                            ELSE base.heap[id]],
                        [id \in {<<"converter", k>> : k \in dicts \ StyleKeys} |-> loaded[id[2]].d]),
             refs |-> SetItem(base.refs, "converter",
                              Update(base.refs["converter"],
                                     [k \in dicts \ StyleKeys |-> <<"converter", k>>]))]
    IN  /\ objects' = EnsureRgbTuplesInPlace(IF style_file.state = "object" THEN merged ELSE base)
        /\ styles_config' = Sheet(objects', "converter")
        /\ pc' = IF style_file.state = "object" THEN "loaded" ELSE "loaded_default"
        /\ UNCHANGED <<style_file, saved_sheet, loaded_file, md_soup, disk, docx, gui>>

\* save_styles(): each entry is copied, the colour of the copy becomes a list,
\* lines 612-617; the write can fail
SaveStylesObjects ==
    LET copied == CopyEntries(objects, "serializable_config", objects.refs["converter"])
        listed == AssignVia(copied, "serializable_config", DOMAIN objects.refs["converter"],
                            LAMBDA style_copy :
                                IF "color_rgb" \in DOMAIN style_copy /\ style_copy.color_rgb.k = "tuple"
                                THEN SetItem(style_copy, "color_rgb", List(style_copy.color_rgb.c))
                                ELSE style_copy)
        dumped == Sheet(listed, "serializable_config")
    IN  /\ objects' = Forget(listed, "serializable_config")
        /\ styles_config' = Sheet(objects', "converter")
        /\ \E written \in BOOLEAN :
              style_file' = IF written
                            THEN ObjectFile([k \in DOMAIN dumped |->
                                    JDict([f \in DOMAIN dumped[k] |-> JsonValue(dumped[k][f])])])
                            ELSE style_file
        /\ pc' = "save_returned"
        /\ UNCHANGED <<saved_sheet, loaded_file, md_soup, disk, docx, gui>>

\* get_styles(): the caller keeps the mapping returned
GetStylesCall ==
    /\ objects' = CopyEntries(objects, "caller", objects.refs["converter"])
    /\ styles_config' = Sheet(objects', "converter")
    /\ pc' = "got_styles"
    /\ UNCHANGED <<style_file, saved_sheet, loaded_file, md_soup, disk, docx, gui>>

\* the caller assigns a field of an entry of the mapping it holds
CallerAssigns ==
    \E a \in CallerAssignments :
        /\ a[1] \in DOMAIN objects.refs["caller"]
        /\ objects' = AssignVia(objects, "caller", {a[1]}, LAMBDA entry : SetItem(entry, a[2], a[3]))
        /\ styles_config' = Sheet(objects', "converter")
        /\ pc' = "caller_assigned"
        /\ UNCHANGED <<style_file, saved_sheet, loaded_file, md_soup, disk, docx, gui>>

\* the caller deletes the 'paragraph' key of the mapping it holds
CallerDeletes ==
    /\ "paragraph" \in DOMAIN objects.refs["caller"]
    /\ objects' = [objects EXCEPT !.refs["caller"] = DelItem(@, "paragraph")]
    /\ styles_config' = Sheet(objects', "converter")
    /\ pc' = "caller_deleted"
    /\ UNCHANGED <<style_file, saved_sheet, loaded_file, md_soup, disk, docx, gui>>

\* set_styles(new_styles) with the mapping of the caller
SetStylesCall ==
    /\ objects' = EnsureRgbTuplesInPlace(CopyEntries(objects, "converter", objects.refs["caller"]))
    /\ styles_config' = Sheet(objects', "converter")
    /\ pc' = "styles_set"
    /\ UNCHANGED <<style_file, saved_sheet, loaded_file, md_soup, disk, docx, gui>>

\* the conversion of <p><strong>..</strong></p>: para_style_config is the
\* 'paragraph' entry of the converter or, without one, the default entry
\* itself (line 233); current_run_style is its copy, made bold (lines 194-195)
AddInlineContentStrong ==
    LET para_style_config ==
            IF "paragraph" \in DOMAIN objects.refs["converter"]
            THEN objects.refs["converter"]["paragraph"]
            ELSE objects.refs["class"]["paragraph"]
        copied == CopyEntries(objects, "current_run_style",
                              [k \in {"paragraph"} |-> para_style_config])
        bolded == AssignVia(copied, "current_run_style", {"paragraph"},
                            LAMBDA current_run_style : SetItem(current_run_style, "bold", Bool(TRUE)))
    IN  /\ objects' = Forget(bolded, "current_run_style")
        /\ styles_config' = Sheet(objects', "converter")
        /\ pc' = "strong_added"
        /\ UNCHANGED <<style_file, saved_sheet, loaded_file, md_soup, disk, docx, gui>>

NextDefaults ==
    \/ NewConverter
    \/ LoadStylesObjects
    \/ SaveStylesObjects
    \/ GetStylesCall
    \/ CallerAssigns
    \/ CallerDeletes
    \/ SetStylesCall
    \/ AddInlineContentStrong

\* a converter was constructed without argument, next to a style file
InitDefaults ==
    /\ objects = EnsureRgbTuplesInPlace(CopyEntries(ClassObjects, "converter", ClassObjects.refs["class"]))
    /\ styles_config = Sheet(objects, "converter")
    /\ style_file \in {AbsentFile, MalformedFile,
                       ObjectFile([k \in {"paragraph", "note"} |->
                                      JDict([color_rgb |-> List(<<9, 9, 9>>)])])}
    /\ saved_sheet = EmptyDict
    /\ loaded_file = AbsentFile
    /\ md_soup = <<>>
    /\ disk = SourceDirOnly
    /\ docx = NoDocx
    /\ current_styles = EmptyDict /\ style_widgets = EmptyDict /\ ops = 0
    /\ pc = "constructed_default"

SpecDefaults == InitDefaults /\ [][NextDefaults]_vars

\* C28: the built-in defaults are never modified: after any sequence of
\* constructor calls, load_styles, save_styles, get_styles with the caller
\* assigning into and deleting from the mapping returned, set_styles and
\* conversions, the entries of DEFAULT_STYLES_CONFIG hold the values of the
\* class body, and a converter constructed without argument, or loaded
\* without a usable file, holds these values.
C28_DefaultsNeverModified ==
    /\ Sheet(objects, "class") = DEFAULT_STYLES_CONFIG
    /\ pc \in {"constructed_default", "loaded_default"} => styles_config = DEFAULT_STYLES_CONFIG

\* a converter was constructed afresh while the caller holds entries it has
\* assigned into and a mapping without 'paragraph'
C28_Witness ==
    /\ pc = "constructed_default"
    /\ "H1" \in DOMAIN objects.refs["caller"]
    /\ Sheet(objects, "caller")["H1"].font_size = Num(99)
    /\ "paragraph" \notin DOMAIN objects.refs["caller"]
    /\ style_file.state = "object"

=============================================================================
